---- MODULE Spec2Model ----
(***************************************************************************)
(* Stylesheet-to-design-tree enhancement engine: CSSParser.parse           *)
(* (src/src/services/cssParser.ts) and CSSEnhancer.enhance                 *)
(* (src/src/services/cssEnhancer.ts).                                      *)
(*                                                                         *)
(* JavaScript strings are sequences of one-character strings, so that the  *)
(* regular expressions, split/trim/includes and the number formatting of   *)
(* the source are computed and not assumed.  JavaScript numbers that the   *)
(* engine computes (scores, confidence, coverage) are exact rationals      *)
(* <<numerator, denominator>> in lowest terms; IEEE rounding is not        *)
(* modelled.  An optional attribute (fills, style, absoluteBoundingBox,    *)
(* document) is <<>> when absent and <<value>> when present.               *)
(***************************************************************************)
EXTENDS Integers, Sequences, FiniteSets, TLC

VARIABLES pc, figmaData, cssText, options, cssParseResult, outcome,
          cache, now, cacheOp,
          request,
          requestQueue, promises, callers,
          tasks, posted

\* the state of CacheService: the Map, Date.now() and the last operation
cacheVars == <<cache, now, cacheOp>>

\* the state of FigmaApiService.fetchFigmaFile: the requestQueue entry of one
\* cache key, the promises of executeRequest, and the callers
fetchVars == <<requestQueue, promises, callers>>

\* the state of the services other than the engine: the cache, one call of
\* FigmaApiService.executeRequest, and the callers of fetchFigmaFile
serviceVars == <<cacheVars, request, fetchVars>>

\* the state of the background worker: the tasks it has received, and the
\* messages it has posted
workerVars == <<tasks, posted>>

vars == <<pc, figmaData, cssText, options, cssParseResult, outcome, serviceVars, workerVars>>

(***************************************************************************)
(* Characters and strings                                                  *)
(***************************************************************************)
LowerLetters ==
  <<"a","b","c","d","e","f","g","h","i","j","k","l","m",
    "n","o","p","q","r","s","t","u","v","w","x","y","z">>

UpperLetters ==
  <<"A","B","C","D","E","F","G","H","I","J","K","L","M",
    "N","O","P","Q","R","S","T","U","V","W","X","Y","Z">>

Digits == <<"0","1","2","3","4","5","6","7","8","9">>

Range(f) == {f[i] : i \in DOMAIN f}

\* [a-zA-Z]
Letters == Range(LowerLetters) \cup Range(UpperLetters)

\* [0-9]
DigitChars == Range(Digits)

\* [0-9a-fA-F]
HexChars == DigitChars \cup {"a","b","c","d","e","f","A","B","C","D","E","F"}

\* \s of the regular expressions and the set String.prototype.trim strips
SpaceChars == {" ", "\n", "\t"}

\* [a-zA-Z0-9-_]
IdentChars == Letters \cup DigitChars \cup {"-", "_"}

\* [a-zA-Z-]
PropChars == Letters \cup {"-"}

\* [-_\s]
NameSepChars == {"-", "_"} \cup SpaceChars

\* [-_\s.#]
SelectorSepChars == NameSepChars \cup {".", "#"}

\* const x = value; ...x...: the value is computed once and named
With(value, Body(_)) == Body(value)

IsUpper(c) == c \in Range(UpperLetters)

IsSpace(c) == c \in SpaceChars

toLowerCaseChar(c) ==
  IF IsUpper(c)
    THEN LowerLetters[CHOOSE i \in DOMAIN UpperLetters : UpperLetters[i] = c]
    ELSE c

toLowerCase(s) == [i \in 1..Len(s) |-> toLowerCaseChar(s[i])]

\* String.prototype.includes
includes(s, sub) ==
  \E i \in 0..(Len(s) - Len(sub)) : SubSeq(s, i + 1, i + Len(sub)) = sub

\* s.substring(from - 1, to - 1) with 1-based indices: characters from..to-1
Slice(s, from, to) == SubSeq(s, from, to - 1)

\* least element of a non-empty set of integers
Least(S) == CHOOSE x \in S : \A y \in S : x <= y

\* first index >= i whose character is not in class, or Len(s)+1
RunEnd(s, i, class) ==
  IF i > Len(s) THEN i
  ELSE CHOOSE k \in i..(Len(s) + 1) :
         /\ k > Len(s) \/ s[k] \notin class
         /\ \A j \in i..(k - 1) : s[j] \in class

\* first index >= i whose character is in class, or Len(s)+1
FirstIn(s, i, class) ==
  IF \E k \in i..Len(s) : s[k] \in class
    THEN CHOOSE k \in i..Len(s) :
           s[k] \in class /\ \A j \in i..(k - 1) : s[j] \notin class
    ELSE Len(s) + 1

\* first index >= i holding character c, or 0 when there is none
IndexOfChar(s, c, i) ==
  IF \E k \in i..Len(s) : s[k] = c
    THEN CHOOSE k \in i..Len(s) : s[k] = c /\ \A j \in i..(k - 1) : s[j] # c
    ELSE 0

TrimLeft(s) == SubSeq(s, RunEnd(s, 1, SpaceChars), Len(s))

\* the index of the last character that is not white space, or 0
LastNonSpace(s) ==
  IF \A k \in 1..Len(s) : s[k] \in SpaceChars THEN 0
  ELSE CHOOSE k \in 1..Len(s) :
         s[k] \notin SpaceChars /\ \A j \in (k + 1)..Len(s) : s[j] \in SpaceChars

TrimRight(s) == SubSeq(s, 1, LastNonSpace(s))

trim(s) == TrimRight(TrimLeft(s))

\* String.prototype.split with a separator of the form /[seps]+/ : a leading
\* or trailing separator run yields an empty first or last element
RECURSIVE splitFrom(_, _, _, _)
splitFrom(s, i, seps, acc) ==
  LET found == {k \in i..Len(s) : s[k] \in seps}
      sep   == Least(found)
  IN  IF found = {} THEN Append(acc, SubSeq(s, i, Len(s)))
      ELSE splitFrom(s, RunEnd(s, sep, seps), seps, Append(acc, Slice(s, i, sep)))

\* nodeName.split(/[-_\s]+/)
splitName(s) == splitFrom(s, 1, NameSepChars, <<>>)

\* selector.split(/[-_\s.#]+/)
splitSelector(s) == splitFrom(s, 1, SelectorSepChars, <<>>)

\* s.match(/P[a-zA-Z][a-zA-Z0-9-_]*/g) || [] for the prefix character P
RECURSIVE matchPrefixed(_, _, _, _)
matchPrefixed(s, i, prefix, acc) ==
  LET starts == {k \in i..(Len(s) - 1) : s[k] = prefix /\ s[k + 1] \in Letters}
      b == Least(starts)
      j == RunEnd(s, b + 2, IdentChars)
  IN  IF starts = {} THEN acc
      ELSE matchPrefixed(s, j, prefix, Append(acc, Slice(s, b, j)))

\* (s.match(/[class]/g) || []).length
CountChars(s, class) == Cardinality({i \in DOMAIN s : s[i] \in class})

(***************************************************************************)
(* Numbers                                                                 *)
(***************************************************************************)
RECURSIVE GCD(_, _)
GCD(a, b) == IF b = 0 THEN a ELSE GCD(b, a % b)

Abs(n) == IF n < 0 THEN -n ELSE n

\* the rational n/d, d # 0, in lowest terms with a positive denominator
Rat(n, d) ==
  LET g == GCD(Abs(n), Abs(d))
      s == IF d < 0 THEN -1 ELSE 1
  IN  <<(s * n) \div g, (s * d) \div g>>

RAdd(a, b) == Rat(a[1] * b[2] + b[1] * a[2], a[2] * b[2])

RSub(a, b) == Rat(a[1] * b[2] - b[1] * a[2], a[2] * b[2])

RMul(a, b) == Rat(a[1] * b[1], a[2] * b[2])

RDivInt(a, n) == Rat(a[1], a[2] * n)

RLt(a, b) == a[1] * b[2] < b[1] * a[2]

RLe(a, b) == a[1] * b[2] <= b[1] * a[2]

RAbs(a) == <<Abs(a[1]), a[2]>>

RMin(a, b) == IF RLt(b, a) THEN b ELSE a

Zero == <<0, 1>>

One == <<1, 1>>

\* Number.prototype.toString / template interpolation of a non-negative integer
RECURSIVE IntToString(_)
IntToString(n) ==
  IF n < 10 THEN <<Digits[n + 1]>>
  ELSE IntToString(n \div 10) \o <<Digits[(n % 10) + 1]>>

DigitValue(c) == (CHOOSE i \in DOMAIN Digits : Digits[i] = c) - 1

\* value of the digit string s[i..j-1] continued from acc (one step per digit)
RECURSIVE DigitsValue(_, _, _, _)
DigitsValue(s, i, j, acc) ==
  IF i >= j THEN acc ELSE DigitsValue(s, i + 1, j, acc * 10 + DigitValue(s[i]))

RECURSIVE Pow10(_)
Pow10(k) == IF k = 0 THEN 1 ELSE 10 * Pow10(k - 1)

\* parseFloat: leading white space, an optional sign, digits, an optional
\* fraction; <<>> is NaN, <<q>> the number q.  Exponents and Infinity are
\* not read (no input of the model writes them).
parseFloat(value) ==
  With(TrimLeft(value), LAMBDA s :
  With(IF s # <<>> /\ s[1] \in {"-", "+"} THEN 2 ELSE 1, LAMBDA b :
  With(RunEnd(s, b, DigitChars), LAMBDA e :
  With(IF e <= Len(s) /\ s[e] = "." THEN RunEnd(s, e + 1, DigitChars) ELSE e, LAMBDA f :
  With(IF f > e THEN f - (e + 1) ELSE 0, LAMBDA fracLen :
    IF e = b /\ fracLen = 0 THEN <<>>
    ELSE <<Rat((IF s[1] = "-" THEN -1 ELSE 1)
                 * (DigitsValue(s, b, e, 0) * Pow10(fracLen)
                    + (IF f > e THEN DigitsValue(s, e + 1, f, 0) ELSE 0)),
               Pow10(fracLen))>>)))))

\* Math.round(c * 255) for a rational c >= 0: halves round up
RoundTimes255(c) == (2 * 255 * c[1] + c[2]) \div (2 * c[2])

(***************************************************************************)
(* CSSParser (src/src/services/cssParser.ts)                               *)
(***************************************************************************)
\* the value a caller passes for cssText when it has no text: not a string
Undefined == <<"undefined">>

IsString(x) == x # Undefined

\* first index k >= i with s[k] = "*" and s[k+1] = "/", or 0
CommentClose(s, i) ==
  LET found == {k \in i..(Len(s) - 1) : s[k] = "*" /\ s[k + 1] = "/"}
  IN  IF found = {} THEN 0 ELSE Least(found)

\* cssText.replace(/\/\*[\s\S]*?\*\//g, ''): the leftmost "/*" at or after i
\* that is closed by a later "*/" is cut, the scan resumes behind it
RECURSIVE removeComments(_, _, _)
removeComments(s, i, acc) ==
  LET opens == {k \in i..(Len(s) - 1) :
                  s[k] = "/" /\ s[k + 1] = "*" /\ CommentClose(s, k + 2) # 0}
      open  == Least(opens)
  IN  IF opens = {} THEN acc \o SubSeq(s, i, Len(s))
      ELSE removeComments(s, CommentClose(s, open + 2) + 2, acc \o Slice(s, i, open))

\* ruleRegexAt with the closing brace made optional: /([^{]+)\{([^}]+)\}?/
ruleRegexAtOpenEnded(s, p) ==
  IF p > Len(s) \/ s[p] = "{" THEN <<>>
  ELSE With(IndexOfChar(s, "{", p), LAMBDA q :
       With(IF q = 0 THEN 0 ELSE IndexOfChar(s, "}", q + 1), LAMBDA c :
       With(IF c = 0 THEN Len(s) + 1 ELSE c, LAMBDA r :
         IF q = 0 \/ r = q + 1 THEN <<>>
         ELSE <<[selector     |-> Slice(s, p, q),
                 declarations |-> Slice(s, q + 1, r),
                 lastIndex    |-> r + 1]>>)))

\* one attempt of /([^{]+)\{([^}]+)\}/ anchored at p: <<>> when it fails,
\* else <<[selector, declarations, lastIndex]>>
ruleRegexAt(s, p) ==
  IF p > Len(s) \/ s[p] = "{" THEN <<>>
  ELSE With(IndexOfChar(s, "{", p), LAMBDA q :
       With(IF q = 0 THEN 0 ELSE IndexOfChar(s, "}", q + 1), LAMBDA r :
         IF q = 0 \/ r = 0 \/ r = q + 1 THEN <<>>
         ELSE <<[selector     |-> Slice(s, p, q),
                 declarations |-> Slice(s, q + 1, r),
                 lastIndex    |-> r + 1]>>))

\* ruleRegex.exec(cleanCSS) from lastIndex p: the leftmost match, or <<>>
\* An attempt anchored at p fails with every anchor up to the '{' it ran
\* into, so the search resumes behind that brace.
RECURSIVE ruleRegexExec(_, _)
ruleRegexExec(s, p) ==
  IF p > Len(s) THEN <<>>
  ELSE With(ruleRegexAt(s, p), LAMBDA m :
         IF m # <<>> THEN m
         ELSE With(IndexOfChar(s, "{", p), LAMBDA q :
                IF q = 0 THEN <<>> ELSE ruleRegexExec(s, q + 1)))

\* does the text s continue with the literal lit at index i
StartsWithAt(s, i, lit) ==
  i + Len(lit) - 1 <= Len(s) /\ SubSeq(s, i, i + Len(lit) - 1) = lit

ImportantLiteral == <<"!","i","m","p","o","r","t","a","n","t">>

\* one attempt of /([a-zA-Z-]+)\s*:\s*([^;]+)(!important)?;?/ anchored at p.
\* [^;]+ is greedy and runs to the next ';' or the end of the text, so the
\* optional third group is tried where the value stopped.
propRegexAt(s, p) ==
  IF p > Len(s) \/ s[p] \notin PropChars THEN <<>>
  ELSE With(RunEnd(s, p, PropChars), LAMBDA e :
       With(RunEnd(s, e, SpaceChars), LAMBDA f :
       With(RunEnd(s, f + 1, SpaceChars), LAMBDA g :
       With(IF g <= Len(s) /\ s[g] # ";" THEN g
            ELSE IF g > f + 1 THEN g - 1 ELSE 0, LAMBDA v :
       With(IF v = 0 THEN 0 ELSE IndexOfChar(s, ";", v), LAMBDA semi :
       With(IF semi = 0 THEN Len(s) + 1 ELSE semi, LAMBDA h :
       With(StartsWithAt(s, h, ImportantLiteral), LAMBDA third :
       With(IF third THEN h + Len(ImportantLiteral) ELSE h, LAMBDA t :
         IF f > Len(s) \/ s[f] # ":" \/ v = 0 THEN <<>>
         ELSE <<[name      |-> Slice(s, p, e),
                 value     |-> Slice(s, v, h),
                 third     |-> third,
                 lastIndex |-> IF t <= Len(s) /\ s[t] = ";" THEN t + 1 ELSE t]>>))))))))

\* propRegex.exec(declarations) from lastIndex p: the leftmost match, or <<>>
\* An attempt anchored inside a run of [a-zA-Z-] fails with every anchor of
\* that run, so the search resumes behind the run.
RECURSIVE propRegexExec(_, _)
propRegexExec(s, p) ==
  With(FirstIn(s, p, PropChars), LAMBDA b :
    IF b > Len(s) THEN <<>>
    ELSE With(propRegexAt(s, b), LAMBDA m :
           IF m # <<>> THEN m ELSE propRegexExec(s, RunEnd(s, b, PropChars))))

RECURSIVE propertiesLoop(_, _, _, _, _)
propertiesLoop(declarations, lastIndex, startLine, lineOffset, properties) ==
  With(propRegexExec(declarations, lastIndex), LAMBDA m :
    IF m = <<>> THEN properties
    ELSE propertiesLoop(declarations, m[1].lastIndex, startLine, lineOffset + 1,
           Append(properties,
                  [property  |-> trim(m[1].name),
                   value     |-> trim(m[1].value),
                   important |-> m[1].third,
                   line      |-> startLine + lineOffset])))

parsePropertiesEnhanced(declarations, startLine) ==
  propertiesLoop(declarations, 1, startLine, 0, <<>>)

\* calculateSpecificity without the count of letters
calculateSpecificityWithoutLetters(selector) ==
    CountChars(selector, {"#"}) * 100
  + CountChars(selector, {".", ":", "["}) * 10

calculateSpecificity(selector) ==
    CountChars(selector, {"#"}) * 100
  + CountChars(selector, {".", ":", "["}) * 10
  + CountChars(selector, Letters)

\* the result object parse starts from
EmptyParseResult ==
  [rules |-> <<>>, errors |-> <<>>, warnings |-> <<>>,
   statistics |-> [totalRules |-> 0, totalProperties |-> 0, totalSelectors |-> 0],
   isValid |-> TRUE]

\* emptyRule reporting the block as an error that invalidates the parse
emptyRuleAsError(result, lineNumber) ==
  [result EXCEPT !.errors =
     Append(@, [message |-> "Empty rule at line", line |-> lineNumber]),
                 !.isValid = FALSE]

\* a matched block with an empty selector or body is reported as a warning
emptyRule(result, lineNumber) ==
  [result EXCEPT !.warnings =
     Append(@, [message |-> "Empty rule at line", line |-> lineNumber])]

\* the body of the while loop of parse, for one match m at line lineNumber
parseRule(result, m, lineNumber) ==
  With(trim(m.selector), LAMBDA selector :
  With(trim(m.declarations), LAMBDA declarations :
    IF selector = <<>> \/ declarations = <<>>
      THEN emptyRule(result, lineNumber)
      ELSE With(parsePropertiesEnhanced(declarations, lineNumber), LAMBDA properties :
             [result EXCEPT
                !.rules = Append(@, [selector    |-> selector,
                                     properties  |-> properties,
                                     specificity |-> calculateSpecificity(selector),
                                     line        |-> lineNumber,
                                     column      |-> 1]),
                !.statistics.totalProperties = @ + Len(properties),
                !.statistics.totalSelectors  = @ + CountChars(selector, {","}) + 1])))

\* the while loop of parse; an empty rule takes `continue` and keeps lineNumber
RECURSIVE parseLoop(_, _, _, _)
parseLoop(cleanCSS, lastIndex, lineNumber, result) ==
  With(ruleRegexExec(cleanCSS, lastIndex), LAMBDA m :
    IF m = <<>> THEN result
    ELSE With(parseRule(result, m[1], lineNumber), LAMBDA next :
           parseLoop(cleanCSS, m[1].lastIndex,
                     IF Len(next.rules) > Len(result.rules)
                       THEN lineNumber + 1 ELSE lineNumber,
                     next)))

\* CSSParser.parse.  cssText.replace throws a TypeError when cssText is not a
\* string; the outer catch records it and clears isValid.
parse(text) ==
  IF ~IsString(text)
    THEN [EmptyParseResult EXCEPT
            !.errors  = <<[message |-> "Critical parsing error", line |-> 0]>>,
            !.isValid = FALSE]
    ELSE With(parseLoop(removeComments(text, 1, <<>>), 1, 1, EmptyParseResult),
              LAMBDA scanned :
                [scanned EXCEPT !.statistics.totalRules = Len(scanned.rules)])

(***************************************************************************)
(* CSSEnhancer (src/src/services/cssEnhancer.ts)                           *)
(***************************************************************************)
\* string literals of the source
StrColor == <<"c","o","l","o","r">>

StrBackground == <<"b","a","c","k","g","r","o","u","n","d">>

StrFontSize == <<"f","o","n","t","-","s","i","z","e">>

StrFontWeight == <<"f","o","n","t","-","w","e","i","g","h","t">>

StrFontFamily == <<"f","o","n","t","-","f","a","m","i","l","y">>

StrLineHeight == <<"l","i","n","e","-","h","e","i","g","h","t">>

StrMargin == <<"m","a","r","g","i","n">>

StrPadding == <<"p","a","d","d","i","n","g">>

StrGap == <<"g","a","p">>

StrWidth == <<"w","i","d","t","h">>

StrHeight == <<"h","e","i","g","h","t">>

StrRgb == <<"r","g","b">>

StrRgbOpen == <<"r","g","b","(">>

StrRgbaOpen == <<"r","g","b","a","(">>

StrPx == <<"p","x">>

GenericSelectors == {<<"d","i","v">>, <<"s","p","a","n">>, <<"p">>, <<"h","1">>, <<"h","2">>, <<"h","3">>}

\* the static methods class CSSEnhancer declares
CSSEnhancerMethods ==
  {"enhance", "createNodeMappings", "findMatchingCSSRules", "calculateRuleMatchScore",
   "calculateNameMatchScore", "calculateClassMatchScore", "calculateIdMatchScore",
   "calculateStyleSimilarityScore", "calculateMappingConfidence", "determineMappingMethod",
   "detectConflicts", "detectPropertyConflict", "generateEnhancedCode",
   "generateSuggestions", "getAllNodes", "extractFigmaColor", "extractCSSColor",
   "areColorsEqual", "areColorsimilar", "isTypographySimilar", "isSpacingSimilar",
   "extractFigmaTypography", "getConflictSeverity"}

\* this.<name>(...) succeeds only for a declared method; otherwise the call
\* raises TypeError: this.<name> is not a function
IsCallable(name) == name \in CSSEnhancerMethods

\* depth-first pre-order list of the nodes below and including node
RECURSIVE getAllNodes(_, _)
RECURSIVE getAllNodesOfChildren(_, _, _)
getAllNodes(node, nodes) ==
  getAllNodesOfChildren(node.children, 1, Append(nodes, node))

getAllNodesOfChildren(children, i, nodes) ==
  IF i > Len(children) THEN nodes
  ELSE getAllNodesOfChildren(children, i + 1, getAllNodes(children[i], nodes))

\* the default value of the accumulator parameter of getAllNodes
NoNodes == <<>>

\* getAllNodes.length: the number of parameters before the first default
GetAllNodesFunctionLength == 1

\* number of name words related by substring, either way, to a selector word
calculateNameMatchScore(nodeName, selector) ==
  With(splitName(nodeName), LAMBDA nameWords :
  With(splitSelector(selector), LAMBDA selectorWords :
    Rat(Cardinality({i \in DOMAIN nameWords :
          \E j \in DOMAIN selectorWords :
             \/ includes(selectorWords[j], nameWords[i])
             \/ includes(nameWords[i], selectorWords[j])}),
        IF Len(nameWords) > Len(selectorWords)
          THEN Len(nameWords) ELSE Len(selectorWords))))

\* shared body of calculateClassMatchScore ('.') and calculateIdMatchScore ('#')
prefixedMatchScore(nodeName, selector, prefix) ==
  With(matchPrefixed(selector, 1, prefix, <<>>), LAMBDA found :
  With(splitName(nodeName), LAMBDA nameWords :
    Rat(Cardinality({i \in DOMAIN found :
          \E j \in DOMAIN nameWords :
             \/ includes(Tail(found[i]), nameWords[j])
             \/ includes(nameWords[j], Tail(found[i]))}),
        IF Len(found) > Len(nameWords) THEN Len(found) ELSE Len(nameWords))))

calculateClassMatchScore(nodeName, selector) == prefixedMatchScore(nodeName, selector, ".")

calculateIdMatchScore(nodeName, selector) == prefixedMatchScore(nodeName, selector, "#")

\* rule.properties.filter(prop => names.includes(prop.property))
propsNamed(rule, names) == SelectSeq(rule.properties, LAMBDA prop : prop.property \in names)

\* rule.properties.filter(prop => prop.property.includes('color') ||
\*                                prop.property.includes('background'))
colorProps(rule) ==
  SelectSeq(rule.properties,
            LAMBDA prop : includes(prop.property, StrColor)
                          \/ includes(prop.property, StrBackground))

\* Math.abs(figmaNumber - parseFloat(value)) < limit; false for NaN
withinOf(figmaNumber, value, limit) ==
  With(parseFloat(value), LAMBDA cssNumber :
    /\ cssNumber # <<>>
    /\ RLt(RAbs(RSub(<<figmaNumber, 1>>, cssNumber[1])), <<limit, 1>>))

isTypographySimilar(figmaStyle, cssProp) ==
  /\ cssProp.property = StrFontSize
  /\ figmaStyle.fontSize # 0
  /\ withinOf(figmaStyle.fontSize, cssProp.value, 2)

isSpacingSimilar(boundingBox, cssProp) ==
  /\ cssProp.property = StrWidth
  /\ boundingBox.width # 0
  /\ withinOf(boundingBox.width, cssProp.value, 5)

\* colorCheckRuns without the test of options.ignoreColors
colorCheckRunsAlways(node, opts) == node.fills # <<>>

\* the colour branch of calculateStyleSimilarityScore is entered
colorCheckRuns(node, opts) == ~opts.ignoreColors /\ node.fills # <<>>

\* calculateStyleSimilarityScore raises: its colour loop calls
\* this.areColorssimilar for the first colour property of the rule
calculateStyleSimilarityThrows(node, rule, opts) ==
  /\ colorCheckRuns(node, opts)
  /\ colorProps(rule) # <<>>
  /\ ~IsCallable("areColorssimilar")

\* calculateStyleSimilarityScore when it returns.  It returns only if the
\* colour loop ran zero times, so colours add neither checks nor score.
calculateStyleSimilarityScore(node, rule, opts) ==
  With(IF ~opts.ignoreTypography /\ node.style # <<>>
         THEN propsNamed(rule, {StrFontSize, StrFontWeight, StrFontFamily, StrLineHeight})
         ELSE <<>>, LAMBDA typographyProps :
  With(IF ~opts.ignoreSpacing /\ node.absoluteBoundingBox # <<>>
         THEN propsNamed(rule, {StrMargin, StrPadding, StrGap, StrWidth, StrHeight})
         ELSE <<>>, LAMBDA spacingProps :
  With(Cardinality({i \in DOMAIN typographyProps :
         isTypographySimilar(node.style[1], typographyProps[i])}), LAMBDA typoHits :
  With(Cardinality({i \in DOMAIN spacingProps :
         isSpacingSimilar(node.absoluteBoundingBox[1], spacingProps[i])}), LAMBDA spaceHits :
    IF Len(typographyProps) + Len(spacingProps) > 0
      THEN RDivInt(RAdd(Rat(2 * typoHits, 10), Rat(spaceHits, 10)),
                   Len(typographyProps) + Len(spacingProps))
      ELSE Zero))))

\* the switch of calculateRuleMatchScore on options.mappingStrategy
strategyScore(nodeName, selector, strategy) ==
  CASE strategy = "name"   -> calculateNameMatchScore(nodeName, selector)
    [] strategy = "class"  -> calculateClassMatchScore(nodeName, selector)
    [] strategy = "id"     -> calculateIdMatchScore(nodeName, selector)
    [] strategy = "hybrid" ->
         RAdd(RAdd(RMul(calculateNameMatchScore(nodeName, selector), <<4, 10>>),
                   RMul(calculateClassMatchScore(nodeName, selector), <<4, 10>>)),
              RMul(calculateIdMatchScore(nodeName, selector), <<2, 10>>))
    [] OTHER -> Zero

\* the style bonus is computed only for a node that has a fills attribute
styleBonusApplies(node, rule) == node.fills # <<>>

calculateRuleMatchThrows(node, rule, opts) ==
  styleBonusApplies(node, rule) /\ calculateStyleSimilarityThrows(node, rule, opts)

\* calculateRuleMatchScore without the toLowerCase of the node name
calculateRuleMatchScoreCaseSensitive(node, rule, opts) ==
  RAdd(strategyScore(node.name, toLowerCase(rule.selector), opts.mappingStrategy),
       IF styleBonusApplies(node, rule)
         THEN calculateStyleSimilarityScore(node, rule, opts) ELSE Zero)

calculateRuleMatchScore(node, rule, opts) ==
  RAdd(strategyScore(toLowerCase(node.name), toLowerCase(rule.selector),
                     opts.mappingStrategy),
       IF styleBonusApplies(node, rule)
         THEN calculateStyleSimilarityScore(node, rule, opts) ELSE Zero)

\* Array.prototype.sort is stable: index k goes before the first index of
\* order whose score is strictly lower (comparator score(b) - score(a))
RECURSIVE insertDescending(_, _, _, _)
insertDescending(order, k, scores, i) ==
  IF i > Len(order) THEN Append(order, k)
  ELSE IF RLt(scores[order[i]], scores[k])
    THEN SubSeq(order, 1, i - 1) \o <<k>> \o SubSeq(order, i, Len(order))
    ELSE insertDescending(order, k, scores, i + 1)

RECURSIVE sortDescending(_, _, _)
sortDescending(scores, k, order) ==
  IF k > Len(scores) THEN order
  ELSE sortDescending(scores, k + 1, insertDescending(order, k, scores, 1))

\* isCandidate with >= for >: a rule of score 0 is pushed as well
isCandidateIncludingZero(matchScore) == RLe(Zero, matchScore)

\* the rule is pushed to matchingRules
isCandidate(matchScore) == RLt(Zero, matchScore)

findMatchingCSSRules(node, cssRules, opts) ==
  With(SelectSeq(cssRules,
                 LAMBDA rule : isCandidate(calculateRuleMatchScore(node, rule, opts))),
       LAMBDA matchingRules :
  With([i \in DOMAIN matchingRules |->
          calculateRuleMatchScore(node, matchingRules[i], opts)], LAMBDA scores :
  With(sortDescending(scores, 1, <<>>), LAMBDA order :
    [i \in DOMAIN order |-> matchingRules[order[i]]])))

RECURSIVE SumScores(_, _, _, _)
SumScores(node, rules, opts, i) ==
  IF i > Len(rules) THEN Zero
  ELSE RAdd(calculateRuleMatchScore(node, rules[i], opts),
            SumScores(node, rules, opts, i + 1))

\* the variable confidence after the boost for a selector that contains the
\* node name
boostedConfidence(node, rules, opts) ==
  With(RDivInt(SumScores(node, rules, opts, 1), Len(rules)), LAMBDA avgScore :
    IF \E i \in DOMAIN rules :
         includes(toLowerCase(rules[i].selector), toLowerCase(node.name))
      THEN RMul(avgScore, <<12, 10>>) ELSE avgScore)

\* the variable confidence just before the return statement: boosted, then
\* reduced for a generic selector
confidenceBeforeClip(node, rules, opts) ==
  IF \E i \in DOMAIN rules : rules[i].selector \in GenericSelectors
    THEN RMul(boostedConfidence(node, rules, opts), <<8, 10>>)
    ELSE boostedConfidence(node, rules, opts)

\* calculateMappingConfidence without Math.min(confidence, 1.0)
calculateMappingConfidenceUnclipped(node, rules, opts) ==
  confidenceBeforeClip(node, rules, opts)

\* calculateMappingConfidence without the reduction for generic selectors
calculateMappingConfidenceNoDiscount(node, rules, opts) ==
  RMin(boostedConfidence(node, rules, opts), One)

calculateMappingConfidence(node, rules, opts) ==
  RMin(confidenceBeforeClip(node, rules, opts), One)

\* determineMappingMethod testing '.' before '#'
determineMappingMethodClassFirst(node, rules, opts) ==
  LET selector == IF rules # <<>> THEN rules[1].selector ELSE <<>>
  IN  IF includes(selector, <<".">>) THEN "class"
      ELSE IF includes(selector, <<"#">>) THEN "id"
      ELSE IF includes(toLowerCase(selector), toLowerCase(node.name)) THEN "name"
      ELSE IF opts.enableAutoMapping THEN "auto"
      ELSE "manual"

determineMappingMethod(node, rules, opts) ==
  LET selector == IF rules # <<>> THEN rules[1].selector ELSE <<>>
  IN  IF includes(selector, <<"#">>) THEN "id"
      ELSE IF includes(selector, <<".">>) THEN "class"
      ELSE IF includes(toLowerCase(selector), toLowerCase(node.name)) THEN "name"
      ELSE IF opts.enableAutoMapping THEN "auto"
      ELSE "manual"

\* meetsMinConfidence without the comparison: every candidate node is kept
meetsMinConfidenceAlways(confidence, opts) == TRUE

\* the mapping is pushed to mappings
meetsMinConfidence(confidence, opts) == RLe(opts.minConfidence, confidence)

\* the body of the forEach of createNodeMappings: zero or one mapping
nodeMapping(node, cssRules, opts) ==
  With(findMatchingCSSRules(node, cssRules, opts), LAMBDA matchingRules :
    IF Len(matchingRules) = 0 THEN <<>>
    ELSE With(calculateMappingConfidence(node, matchingRules, opts), LAMBDA confidence :
           IF meetsMinConfidence(confidence, opts)
             THEN <<[nodeId        |-> node.id,
                     nodeName      |-> node.name,
                     nodeType      |-> node.type,
                     cssRules      |-> matchingRules,
                     confidence    |-> confidence,
                     mappingMethod |-> determineMappingMethod(node, matchingRules, opts)]>>
             ELSE <<>>))

RECURSIVE Concat(_, _)
Concat(seqs, i) == IF i > Len(seqs) THEN <<>> ELSE seqs[i] \o Concat(seqs, i + 1)

createNodeMappings(document, cssRules, opts) ==
  With(getAllNodes(document, NoNodes), LAMBDA allNodes :
    Concat([i \in DOMAIN allNodes |-> nodeMapping(allNodes[i], cssRules, opts)], 1))

\* every (node, rule) pair is scored by findMatchingCSSRules, so the pass
\* raises as soon as one pair does
createNodeMappingsThrows(document, cssRules, opts) ==
  With(getAllNodes(document, NoNodes), LAMBDA allNodes :
    \E i \in DOMAIN allNodes : \E j \in DOMAIN cssRules :
       calculateRuleMatchThrows(allNodes[i], cssRules[j], opts))

\* extractFigmaColor falling back to black when there is no solid fill
extractFigmaColorDefaultBlack(fills) ==
  LET solid == SelectSeq(fills, LAMBDA fill : fill.type = "SOLID")
  IN  IF solid = <<>> \/ solid[1].color = <<>>
        THEN <<StrRgbOpen \o <<"0", ",", " ", "0", ",", " ", "0", ")">>>>
        ELSE <<StrRgbOpen \o IntToString(RoundTimes255(solid[1].color[1].r)) \o <<",", " ">>
               \o IntToString(RoundTimes255(solid[1].color[1].g)) \o <<",", " ">>
               \o IntToString(RoundTimes255(solid[1].color[1].b)) \o <<")">>>>

\* <<>> is null
extractFigmaColor(fills) ==
  LET solid == SelectSeq(fills, LAMBDA fill : fill.type = "SOLID")
  IN  IF solid = <<>> \/ solid[1].color = <<>> THEN <<>>
      ELSE LET c == solid[1].color[1]
           IN  <<StrRgbOpen \o IntToString(RoundTimes255(c.r)) \o <<",", " ">>
                 \o IntToString(RoundTimes255(c.g)) \o <<",", " ">>
                 \o IntToString(RoundTimes255(c.b)) \o <<")">>>>

AllIn(s, from, to, class) == \A i \in from..to : i <= Len(s) /\ s[i] \in class

\* one attempt of the alternation of extractCSSColor anchored at p
cssColorAt(s, p) ==
  LET close3 == IndexOfChar(s, ")", p + 4)
      close4 == IndexOfChar(s, ")", p + 5)
  IN  IF s[p] = "#" /\ AllIn(s, p + 1, p + 6, HexChars) THEN <<Slice(s, p, p + 7)>>
      ELSE IF s[p] = "#" /\ AllIn(s, p + 1, p + 3, HexChars) THEN <<Slice(s, p, p + 4)>>
      ELSE IF StartsWithAt(s, p, StrRgbOpen) /\ close3 > p + 4
        THEN <<Slice(s, p, close3 + 1)>>
      ELSE IF StartsWithAt(s, p, StrRgbaOpen) /\ close4 > p + 5
        THEN <<Slice(s, p, close4 + 1)>>
      ELSE IF s[p] \in Letters THEN <<Slice(s, p, RunEnd(s, p, Letters))>>
      ELSE <<>>

\* value.match(...): the leftmost match, or <<>> for null
extractCSSColor(value) ==
  With({k \in 1..Len(value) : cssColorAt(value, k) # <<>>}, LAMBDA starts :
    IF starts = {} THEN <<>> ELSE cssColorAt(value, Least(starts)))

areColorsEqual(color1, color2) == toLowerCase(color1) = toLowerCase(color2)

\* getConflictSeverity grading two rgb forms as high
getConflictSeverityHigh(figmaValue, cssValue) ==
  IF includes(figmaValue, StrRgb) /\ includes(cssValue, StrRgb) THEN "high" ELSE "low"

getConflictSeverity(figmaValue, cssValue) ==
  IF includes(figmaValue, StrRgb) /\ includes(cssValue, StrRgb) THEN "medium" ELSE "low"

\* <<>> is null; 0 and the empty string are falsy
extractFigmaTypography(style, property) ==
  IF property = StrFontSize /\ style.fontSize # 0
    THEN <<IntToString(style.fontSize) \o StrPx>>
  ELSE IF property = StrFontWeight /\ style.fontWeight # 0
    THEN <<IntToString(style.fontWeight)>>
  ELSE IF property = StrFontFamily /\ style.fontFamily # <<>>
    THEN <<style.fontFamily>>
  ELSE <<>>

\* zero or one conflict for one declaration of a mapped rule
detectPropertyConflict(node, prop, opts) ==
  With(IF includes(prop.property, StrColor) /\ node.fills # <<>> /\ ~opts.ignoreColors
         THEN extractFigmaColor(node.fills[1]) ELSE <<>>, LAMBDA figmaColor :
  With(IF figmaColor # <<>> THEN extractCSSColor(prop.value) ELSE <<>>, LAMBDA cssColor :
  With(IF /\ prop.property \in {StrFontSize, StrFontWeight, StrFontFamily}
          /\ node.style # <<>> /\ ~opts.ignoreTypography
         THEN extractFigmaTypography(node.style[1], prop.property) ELSE <<>>,
       LAMBDA figmaValue :
    IF /\ figmaColor # <<>> /\ cssColor # <<>>
       /\ ~areColorsEqual(figmaColor[1], cssColor[1])
      THEN <<[type       |-> "color",
              property   |-> prop.property,
              figmaValue |-> figmaColor[1],
              cssValue   |-> cssColor[1],
              severity   |-> getConflictSeverity(figmaColor[1], cssColor[1]),
              suggestion |-> "Consider using Figma color"]>>
    ELSE IF figmaValue # <<>> /\ prop.value # figmaValue[1]
      THEN <<[type       |-> "typography",
              property   |-> prop.property,
              figmaValue |-> figmaValue[1],
              cssValue   |-> prop.value,
              severity   |-> "medium",
              suggestion |-> "Consider using Figma typography"]>>
    ELSE <<>>)))

\* conflicts of one mapping, rule by rule and declaration by declaration
mappingConflicts(mapping, allNodes, opts) ==
  LET found == SelectSeq(allNodes, LAMBDA n : n.id = mapping.nodeId)
  IN  IF found = <<>> THEN <<>>
      ELSE Concat([r \in DOMAIN mapping.cssRules |->
                     Concat([d \in DOMAIN mapping.cssRules[r].properties |->
                               detectPropertyConflict(found[1],
                                   mapping.cssRules[r].properties[d], opts)], 1)], 1)

detectConflicts(mappings, document, opts) ==
  With(getAllNodes(document, NoNodes), LAMBDA allNodes :
    Concat([m \in DOMAIN mappings |-> mappingConflicts(mappings[m], allNodes, opts)], 1))

SuggestNoMappings == [text |-> "No CSS mappings found", count |-> 0]

SuggestLowCoverage == [text |-> "Low CSS coverage", count |-> 0]

SuggestHighSeverity(n) == [text |-> "high-severity conflicts found", count |-> n]

SuggestLowConfidence == [text |-> "Many mappings have low confidence", count |-> 0]

\* sliceTo starting one element late: suggestions.slice(1, n)
sliceFromSecond(seq, n) == SubSeq(seq, 2, IF n < Len(seq) THEN n ELSE Len(seq))

\* sliceTo without the end index: the whole array is returned
sliceKeepAll(seq, n) == seq

\* suggestions.slice(0, n) for n >= 0
sliceTo(seq, n) == SubSeq(seq, 1, IF n < Len(seq) THEN n ELSE Len(seq))

generateSuggestions(mappings, conflicts, opts) ==
  LET coverageNote ==
        IF Len(mappings) = 0 THEN <<SuggestNoMappings>>
        ELSE IF RLt(Rat(Len(mappings), GetAllNodesFunctionLength), <<3, 10>>)
          THEN <<SuggestLowCoverage>>
        ELSE <<>>
      highSeverity == SelectSeq(conflicts, LAMBDA c : c.severity = "high")
      conflictNote ==
        IF Len(conflicts) > 0 /\ Len(highSeverity) > 0
          THEN <<SuggestHighSeverity(Len(highSeverity))>> ELSE <<>>
      lowConfidence == SelectSeq(mappings, LAMBDA m : RLt(m.confidence, <<7, 10>>))
      strategyNote ==
        IF 2 * Len(lowConfidence) > Len(mappings) THEN <<SuggestLowConfidence>> ELSE <<>>
  IN  sliceTo(coverageNote \o conflictNote \o strategyNote, opts.maxSuggestions)

\* coverageOf dividing by the root and its direct children only
coverageOfDirectChildren(mappingResults, document) ==
  Rat(Len(mappingResults), Len(document.children) + 1)

\* mappingResults.length / this.getAllNodes(figmaData.document).length
coverageOf(mappingResults, document) ==
  Rat(Len(mappingResults), Len(getAllNodes(document, NoNodes)))

NoResult ==
  [mappingResults |-> <<>>, coverage |-> Zero, conflicts |-> <<>>, suggestions |-> <<>>,
   statistics |-> [totalNodes |-> 0, mappedNodes |-> 0, cssRules |-> 0, conflicts |-> 0]]

Returned(result) == [status |-> "returned", error |-> "", result |-> result]

Thrown(message) == [status |-> "thrown", error |-> message, result |-> NoResult]

\* CSSEnhancer.enhance behind its call of CSSParser.parse.  enhancedCode (a serialisation of the other fields
\* with two timestamps) and statistics.processingTime (a clock difference)
\* are left out of the result.
enhanceParsed(data, parsed, opts) ==
  IF ~parsed.isValid THEN Thrown("CSS parsing failed")
  ELSE IF data.document = <<>>
    THEN Thrown("TypeError: Cannot read properties of undefined (reading 'children')")
  ELSE IF createNodeMappingsThrows(data.document[1], parsed.rules, opts)
    THEN Thrown("TypeError: this.areColorssimilar is not a function")
  ELSE With(createNodeMappings(data.document[1], parsed.rules, opts),
            LAMBDA mappingResults :
       With(detectConflicts(mappingResults, data.document[1], opts), LAMBDA conflicts :
         Returned(
           [mappingResults |-> mappingResults,
            coverage   |-> coverageOf(mappingResults, data.document[1]),
            conflicts  |-> conflicts,
            suggestions |-> generateSuggestions(mappingResults, conflicts, opts),
            statistics |-> [totalNodes  |-> Len(getAllNodes(data.document[1], NoNodes)),
                            mappedNodes |-> Len(mappingResults),
                            cssRules    |-> Len(parsed.rules),
                            conflicts   |-> Len(conflicts)]])))

enhance(data, text, opts) == enhanceParsed(data, parse(text), opts)

(***************************************************************************)
(* Inputs of the calls                                                     *)
(***************************************************************************)
\* the stylesheet of the end-to-end scenarios 1 and 2
CssScenario ==
  <<".","h","e","a","d","e","r"," ","{"," ","c","o","l","o","r",":"," ","r","g","b","(","2","5","5",",","0",",","0",")",";"," ","f","o","n","t","-","s","i","z","e",":"," ","1","8","p","x",";"," ","}">>

\* scenario 3
CssEmpty ==
  <<>>

\* scenario 4: a rule block that is never closed
CssUnterminated ==
  <<".","f","o","o"," ","{"," ","c","o","l","o","r",":"," ","r","e","d",";">>

\* no colour declarations
CssTypography ==
  <<".","h","e","a","d","e","r"," ","{"," ","f","o","n","t","-","s","i","z","e",":"," ","1","8","p","x",";"," ","f","o","n","t","-","w","e","i","g","h","t",":"," ","4","0","0"," ","}","\n","b","u","t","t","o","n"," ","{"," ","w","i","d","t","h",":"," ","4","2","p","x"," ","}","\n","s","p","a","n"," ","{"," ","f","o","n","t","-","s","i","z","e",":"," ","1","6","p","x"," ","}">>

\* id and descendant selectors
CssIds ==
  <<"#","h","e","a","d","e","r"," ","{"," ","w","i","d","t","h",":"," ","1","0","0","p","x"," ","}"," ",".","n","a","v","-","b","a","r"," ",".","h","e","a","d","e","r"," ","{"," ","h","e","i","g","h","t",":"," ","4","p","x"," ","}"," ",".","b","a","r"," ","{"," ","g","a","p",":"," ","2","p","x"," ","}">>

\* a comment and an !important declaration
CssComment ==
  <<"/","*"," ",".","h","e","a","d","e","r"," ","{"," ","c","o","l","o","r",":"," ","r","e","d"," ","}"," ","*","/"," ",".","b","u","t","t","o","n","-","p","r","i","m","a","r","y"," ","{"," ","p","a","d","d","i","n","g",":"," ","4","p","x"," ","!","i","m","p","o","r","t","a","n","t",";"," ","}">>

\* rule blocks without declarations
CssEmptyRules ==
  <<".","a"," ","{"," ","}"," ",".","h","e","a","d","e","r"," ","{"," ","}">>

\* stray braces around a rule
CssStray ==
  <<"}","{"," ","f","o","n","t","-","s","i","z","e",":"," ","1","6","p","x"," ","}"," ","}"," ","h","e","a","d","e","r"," ","{"," ","w","i","d","t","h",":"," ","1","0","0","p","x",";"," ","f","o","n","t","-","s","i","z","e",":"," ","1","7","p","x"," ","}">>

\* the colour of the blue fill, spelled as extractFigmaColor spells it
CssBlue ==
  <<".","h","e","a","d","e","r"," ","{"," ","b","a","c","k","g","r","o","u","n","d","-","c","o","l","o","r",":"," ","r","g","b","(","0",","," ","0",","," ","2","5","5",")"," ","}">>

\* one rule whose selector is a bare generic tag name
CssGeneric ==
  <<"s","p","a","n"," ","{"," ","f","o","n","t","-","s","i","z","e",":"," ","1","6","p","x"," ","}">>

\* selectors with '#', '.', '[' and ':'
CssSpecificity ==
  <<"#","i","d",".","c","l","a","s","s"," ","{"," ","c","o","l","o","r",":"," ","r","e","d"," ","}"," ","a","[","b","]",":","h","o","v","e","r"," ","{"," ","g","a","p",":"," ","2","p","x"," ","}">>

CssTexts ==
  {CssScenario, CssEmpty, CssUnterminated, CssTypography, CssIds, CssComment, CssEmptyRules, CssStray, CssBlue, CssGeneric, CssSpecificity, Undefined}

\* the stylesheets tried on the trees with more than one node
TreeCssTexts ==
  {CssScenario, CssEmpty, CssTypography, CssIds, CssStray}

\* length of the longest enumerated text
MaxLen == 4

\* the characters of the enumerated texts
TextAlphabet == {"a", "{", "}", ":", ";", " "}

\* every text over TextAlphabet of length at most MaxLen
EnumeratedTexts == UNION {[1..n -> TextAlphabet] : n \in 0..MaxLen}

NameHeader == <<"H","e","a","d","e","r">>

NameNavBar == <<"N","a","v","-","B","a","r">>

NameButton == <<"b","u","t","t","o","n">>

NameSpan == <<"S","p","a","n">>

FontInter == <<"I","n","t","e","r">>

Blue == [r |-> <<0, 1>>, g |-> <<0, 1>>, b |-> <<1, 1>>]

Red == [r |-> <<1, 1>>, g |-> <<0, 1>>, b |-> <<0, 1>>]

HalfGrey == [r |-> <<1, 2>>, g |-> <<1, 2>>, b |-> <<1, 2>>]

SolidFill(c) == [type |-> "SOLID", color |-> <<c>>]

ImageFill == [type |-> "IMAGE", color |-> <<>>]

TextStyle(size, weight, family) ==
  [fontSize |-> size, fontWeight |-> weight, fontFamily |-> family]

Box(w, h) == [width |-> w, height |-> h]

\* a node without identity and children: name, type and optional attributes
Profile(name, type, fills, style, box) ==
  [name |-> name, type |-> type, fills |-> fills, style |-> style,
   absoluteBoundingBox |-> box]

\* the root of scenario 1: FRAME "Header" and nothing else
HeaderPlain == Profile(NameHeader, "FRAME", <<>>, <<>>, <<>>)

\* the root of scenario 2: the same node with a solid blue fill
HeaderBlue == Profile(NameHeader, "FRAME", <<<<SolidFill(Blue)>>>>, <<>>, <<>>)

\* the same node with a solid fill of the colour the scenario stylesheet declares
HeaderRed == Profile(NameHeader, "FRAME", <<<<SolidFill(Red)>>>>, <<>>, <<>>)

HeaderText ==
  Profile(NameHeader, "TEXT", <<>>, <<TextStyle(18, 700, FontInter)>>, <<Box(100, 20)>>)

\* an empty fills array is still a fills attribute
NavBarEmptyFills ==
  Profile(NameNavBar, "FRAME", <<<<>>>>, <<TextStyle(17, 0, <<>>)>>, <<Box(102, 0)>>)

ButtonImage ==
  Profile(NameButton, "RECTANGLE", <<<<ImageFill, SolidFill(HalfGrey)>>>>, <<>>, <<Box(40, 12)>>)

SpanText == Profile(NameSpan, "TEXT", <<>>, <<TextStyle(16, 400, <<>>)>>, <<>>)

Profiles == {HeaderPlain, HeaderBlue, HeaderRed, HeaderText, NavBarEmptyFills, ButtonImage, SpanText}

\* roots and children of the generated trees with more than one node
ParentProfiles == {HeaderPlain, NavBarEmptyFills}

ChildProfiles == {HeaderText, ButtonImage}

\* most children of a generated root
MaxChildren == 2

Node(id, profile, children) ==
  [id |-> id, name |-> profile.name, type |-> profile.type, children |-> children,
   fills |-> profile.fills, style |-> profile.style,
   absoluteBoundingBox |-> profile.absoluteBoundingBox]

ChildIds == <<"1:2", "1:3", "1:4", "1:5">>

\* a tree of one node
SingleTrees == {Node("1:1", root, <<>>) : root \in Profiles}

\* a root with one to MaxChildren leaf children
FlatTrees ==
  {Node("1:1", root, [i \in DOMAIN kids |-> Node(ChildIds[i], kids[i], <<>>)]) :
     root \in ParentProfiles,
     kids \in UNION {[1..n -> ChildProfiles] : n \in 1..MaxChildren}}

\* a root, one child and one grandchild
DeepTrees ==
  {Node("1:1", HeaderPlain, <<Node("1:2", kid, <<Node("1:3", grandkid, <<>>)>>)>>) :
     kid \in {NavBarEmptyFills, SpanText}, grandkid \in {HeaderText, ButtonImage}}

\* a chain of four nodes: root, child, grandchild and great-grandchild
ChainTree ==
  Node("1:1", HeaderPlain,
       <<Node("1:2", SpanText,
              <<Node("1:3", ButtonImage, <<Node("1:4", SpanText, <<>>)>>)>>)>>)

\* a response without a document node
NoDocument == [document |-> <<>>]

\* the default value of the options parameter of enhance
DefaultOptions ==
  [strictMatching |-> FALSE, ignoreColors |-> FALSE, ignoreTypography |-> FALSE,
   ignoreSpacing |-> FALSE, enableAutoMapping |-> TRUE, mappingStrategy |-> "hybrid",
   minConfidence |-> <<1, 2>>, maxSuggestions |-> 10]

MappingStrategies == {"name", "class", "id", "hybrid"}

MinConfidences == {Zero, <<1, 2>>}

\* the option records tried on every tree
TreeOptionRecords ==
  {DefaultOptions,
   [DefaultOptions EXCEPT !.minConfidence = Zero],
   [DefaultOptions EXCEPT !.mappingStrategy = "name", !.minConfidence = Zero],
   [DefaultOptions EXCEPT !.mappingStrategy = "class"],
   [DefaultOptions EXCEPT !.ignoreColors = TRUE, !.minConfidence = Zero],
   [DefaultOptions EXCEPT !.maxSuggestions = 1, !.minConfidence = <<9, 10>>]}

\* the option records tried on the trees of one node
OptionRecords ==
  {[DefaultOptions EXCEPT !.mappingStrategy = s, !.minConfidence = c] :
     s \in MappingStrategies, c \in MinConfidences}
  \cup {[DefaultOptions EXCEPT !.ignoreColors = TRUE, !.minConfidence = c] :
           c \in MinConfidences \cup {<<9, 10>>}}
  \cup {[DefaultOptions EXCEPT !.ignoreTypography = TRUE],
        [DefaultOptions EXCEPT !.ignoreSpacing = TRUE, !.minConfidence = Zero],
        [DefaultOptions EXCEPT !.enableAutoMapping = FALSE, !.mappingStrategy = "name",
                               !.minConfidence = Zero],
        [DefaultOptions EXCEPT !.maxSuggestions = 0],
        [DefaultOptions EXCEPT !.maxSuggestions = 1, !.minConfidence = <<9, 10>>]}

Response(tree) == [document |-> <<tree>>]

\* the arguments of the calls of enhance
EnhanceCalls ==
  {<<data, text, opts>> :
     data \in {Response(tree) : tree \in SingleTrees} \cup {NoDocument},
     text \in CssTexts, opts \in OptionRecords \cup TreeOptionRecords}
  \cup
  {<<Response(tree), text, opts>> :
     tree \in FlatTrees \cup DeepTrees \cup {ChainTree},
     text \in TreeCssTexts, opts \in TreeOptionRecords}

(***************************************************************************)
(* CacheService (src/unnamed/part_004)                                     *)
(*                                                                         *)
(* The Map is a sequence of entries in insertion order.  Sizes are in      *)
(* units of which maxSize holds CacheMaxSize; Date.now() is the counter    *)
(* now, and an entry expires ExpiryTicks after it was set.  The counters   *)
(* stats and entry.hits and the stored data are left out: no branch of     *)
(* set, get, delete or evictOldEntries reads them.  Callers await each     *)
(* operation before the next one starts.                                   *)
(***************************************************************************)
\* this.maxSize, in size units
CacheMaxSize == 3

\* expiryHours, in ticks of now
ExpiryTicks == 2

\* the last value of Date.now() that is explored
MaxClock == 3

\* the keys of generateFigmaKey and generateCodeKey that are used
CacheKeys == {"figma:a:root", "figma:b:root", "code:a:root:nocss"}

\* calculateSize(processedData): up to one unit more than maxSize
EntrySizes == 1..(CacheMaxSize + 1)

NoCacheOp == [op |-> "none", key |-> "", result |-> ""]

RECURSIVE SumSizes(_, _)
SumSizes(entries, i) ==
  IF i > Len(entries) THEN 0 ELSE entries[i].size + SumSizes(entries, i + 1)

getCurrentSize(entries) == SumSizes(entries, 1)

\* this.cache.has(key)
cacheHas(entries, key) == \E i \in DOMAIN entries : entries[i].key = key

\* this.cache.get(key), for a key the Map has
cacheEntry(entries, key) == entries[CHOOSE i \in DOMAIN entries : entries[i].key = key]

\* this.cache.delete(key)
cacheDelete(entries, key) == SelectSeq(entries, LAMBDA e : e.key # key)

\* this.cache.set(key, entry): an existing key keeps its place in the Map
cacheSet(entries, entry) ==
  IF cacheHas(entries, entry.key)
    THEN [i \in DOMAIN entries |->
            IF entries[i].key = entry.key THEN entry ELSE entries[i]]
    ELSE Append(entries, entry)

\* entries.sort(([, a], [, b]) => a.lastAccessed - b.lastAccessed): stable,
\* so entry e goes before the first entry that was accessed later
RECURSIVE insertByLastAccessed(_, _, _)
insertByLastAccessed(sorted, e, i) ==
  IF i > Len(sorted) THEN Append(sorted, e)
  ELSE IF e.lastAccessed < sorted[i].lastAccessed
    THEN SubSeq(sorted, 1, i - 1) \o <<e>> \o SubSeq(sorted, i, Len(sorted))
    ELSE insertByLastAccessed(sorted, e, i + 1)

RECURSIVE sortByLastAccessed(_, _, _)
sortByLastAccessed(entries, k, sorted) ==
  IF k > Len(entries) THEN sorted
  ELSE sortByLastAccessed(entries, k + 1, insertByLastAccessed(sorted, entries[k], 1))

\* the for loop of evictOldEntries over the sorted entries
RECURSIVE evictLoop(_, _, _, _, _)
evictLoop(entries, sorted, i, freedSpace, requiredSize) ==
  IF i > Len(sorted) \/ freedSpace >= requiredSize THEN entries
  ELSE evictLoop(cacheDelete(entries, sorted[i].key), sorted, i + 1,
                 freedSpace + sorted[i].size, requiredSize)

evictOldEntries(entries, requiredSize) ==
  evictLoop(entries, sortByLastAccessed(entries, 1, <<>>), 1, 0, requiredSize)

\* the Map after set(key, data) for data of the given size at time t
setEntry(entries, key, size, t) ==
  cacheSet(IF getCurrentSize(entries) + size > CacheMaxSize
             THEN evictOldEntries(entries, size) ELSE entries,
           [key |-> key, size |-> size, timestamp |-> t,
            expiresAt |-> t + ExpiryTicks, lastAccessed |-> t])

\* what get(key) finds at time t
getResult(entries, key, t) ==
  IF ~cacheHas(entries, key) THEN "miss"
  ELSE IF t > cacheEntry(entries, key).expiresAt THEN "expired"
  ELSE "hit"

\* the Map after get(key) at time t
getEntry(entries, key, t) ==
  CASE getResult(entries, key, t) = "miss" -> entries
    [] getResult(entries, key, t) = "expired" -> cacheDelete(entries, key)
    [] OTHER ->
         [i \in DOMAIN entries |->
            IF entries[i].key = key THEN [entries[i] EXCEPT !.lastAccessed = t]
            ELSE entries[i]]

\* the callback of setupCleanup, and the loop of loadFromStorage
dropExpired(entries, t) == SelectSeq(entries, LAMBDA e : ~(t > e.expiresAt))

(***************************************************************************)
(* FigmaApiService.executeRequest (src/src/services/figma/figmaApiService) *)
(*                                                                         *)
(* One call.  The environment decides what each fetch attempt brings; the  *)
(* call keeps the attempts and the delays it has awaited.                  *)
(***************************************************************************)
\* the largest options.maxRetries that is explored
MaxRetriesOption == 3

DefaultMaxRetries == 3

DefaultRetryDelay == 1000

\* options.x || d, for an option that is unset (<<>>) or a number
OrDefault(opt, d) == IF opt = <<>> \/ opt[1] = 0 THEN d ELSE opt[1]

RECURSIVE Pow2(_)
Pow2(n) == IF n <= 0 THEN 1 ELSE 2 * Pow2(n - 1)

\* what one await fetch(...) and the reading of its response bring:
\*   a response with a status (200 with a document that validates, or not, or
\*   with a body that is no JSON), a TypeError of fetch whose message holds
\*   'fetch' ("Failed to fetch") or does not ("Load failed"), or the
\*   TimeoutError of AbortSignal.timeout
FetchResults ==
  { [kind |-> "response", status |-> st, body |-> "valid"] : st \in {200, 404, 403, 429, 500, 503} }
  \cup { [kind |-> "response", status |-> 200, body |-> b] : b \in {"invalid", "notJson"} }
  \cup { [kind |-> k, status |-> 0, body |-> ""] : k \in {"typeErrorFetch", "typeErrorOther", "timeout"} }

\* response.ok
responseOk(result) == result.status >= 200 /\ result.status <= 299

getErrorCode(status) ==
  CASE status = 400 -> "BAD_REQUEST"
    [] status = 401 -> "UNAUTHORIZED"
    [] status = 403 -> "FORBIDDEN"
    [] status = 404 -> "NOT_FOUND"
    [] status = 429 -> "RATE_LIMITED"
    [] status = 500 -> "INTERNAL_ERROR"
    [] OTHER -> "UNKNOWN_ERROR"

\* the test of line 133: a client error other than 429
isClientError(result) ==
  result.status >= 400 /\ result.status < 500 /\ result.status # 429

\* what the try block of one attempt does: it returns the data, awaits the
\* delay and continues, or throws
tryBlock(result, attempt, maxRetries) ==
  IF result.kind # "response" THEN "throw"
  ELSE IF ~responseOk(result)
    THEN IF isClientError(result) THEN "throw"
         ELSE IF attempt < maxRetries THEN "continue"
         ELSE "throw"
  ELSE IF result.body = "valid" THEN "return"
  ELSE "throw"

\* what the catch block does with what the try block threw
catchBlock(result, attempt, maxRetries) ==
  IF attempt = maxRetries THEN "REQUEST_FAILED"
  ELSE IF result.kind = "typeErrorFetch" THEN "NETWORK_ERROR"
  ELSE "delay"

\* one pass of the loop body: "return", "delay" (then the next attempt), or
\* the code of the error the call rejects with
attemptOutcome(result, attempt, maxRetries) ==
  CASE tryBlock(result, attempt, maxRetries) = "return" -> "return"
    [] tryBlock(result, attempt, maxRetries) = "continue" -> "delay"
    [] OTHER -> catchBlock(result, attempt, maxRetries)

\* a delay that does not grow
backoffDelayConstant(retryDelay, attempt) == retryDelay

\* retryDelay * Math.pow(2, attempt - 1)
backoffDelay(retryDelay, attempt) == retryDelay * Pow2(attempt - 1)

IdleRequest ==
  [pc |-> "idle", options |-> [maxRetries |-> <<>>, retryDelay |-> <<>>],
   maxRetries |-> 0, retryDelay |-> 0, attempt |-> 0,
   fetches |-> <<>>, delays |-> <<>>, settled |-> "pending"]

\* the loop test attempt <= maxRetries, and the throw behind the loop
loopOrFallThrough(req) ==
  IF req.attempt <= req.maxRetries THEN [req EXCEPT !.pc = "fetch"]
  ELSE [req EXCEPT !.pc = "done", !.settled = "Unexpected error in executeRequest"]

(***************************************************************************)
(* FigmaApiService.fetchFigmaFile                                          *)
(*                                                                         *)
(* Concurrent calls for one (fileKey, nodeId).  requestQueue is <<>> or    *)
(* holds the promise queued for the key; promises[p] is the state of the   *)
(* p-th promise that executeRequest returned; stats are left out.          *)
(***************************************************************************)
\* the number of calls of fetchFigmaFile
MaxCallers == 3

Callers == 1..MaxCallers

\* generateFigmaKey(fileKey, nodeId) of the calls
FigmaKey == "figma:a:root"

\* calculateSize(result)
FigmaDataSize == 1

IdleCaller ==
  [pc |-> "idle", enableCaching |-> TRUE, promise |-> 0, created |-> FALSE,
   result |-> "pending"]

\* this.requestQueue.has(cacheKey)
queueHas(queue) == queue # <<>>

\* const requestPromise = this.executeRequest(...);
\* this.requestQueue.set(cacheKey, requestPromise): the caller awaits it
startRequest(caller, ps) ==
  [caller EXCEPT !.pc = "awaitRequest", !.promise = Len(ps) + 1, !.created = TRUE]

(***************************************************************************)
(* The background worker (src/unnamed/part_000)                            *)
(*                                                                         *)
(* tasks[id] is the task message with that id and where its handler        *)
(* stands; posted is the sequence of the messages of postMessage.  A       *)
(* message carries its optional fields as <<>> or <<value>>; of a result   *)
(* only its presence is kept.                                              *)
(***************************************************************************)
\* the number of task messages
MaxTasks == 2

\* task.id: the tasks are numbered in the order of their arrival
TaskIds == 1..MaxTasks

\* task.data and task.options: the response is missing or is a tree of one
\* node; options is optional in ProcessingTask
TaskInput(f, o) == [figmaData |-> f, cssText |-> CssScenario, options |-> o]

PlainResponse == Response(Node("1:1", HeaderPlain, <<>>))

TaskInputs ==
  {TaskInput(<<>>, <<DefaultOptions>>),
   TaskInput(<<PlainResponse>>, <<>>),
   TaskInput(<<PlainResponse>>, <<DefaultOptions>>),
   TaskInput(<<Response(Node("1:1", HeaderBlue, <<>>))>>, <<DefaultOptions>>)}

\* the task messages: every input with the three types, one input with a
\* type the switch does not know
TaskMessages ==
  ({"PROCESS_FIGMA_DATA", "ENHANCE_WITH_CSS", "GENERATE_CODE"} \X TaskInputs)
  \cup {<<"EXPORT_ASSETS", TaskInput(<<PlainResponse>>, <<DefaultOptions>>)>>}

NoTask == [type |-> "", pc |-> "none", input |-> <<>>]

ProgressMessage(id, n) ==
  [taskId |-> id, success |-> TRUE, progress |-> <<n>>, result |-> FALSE, error |-> <<>>]

ResultMessage(id) ==
  [taskId |-> id, success |-> TRUE, progress |-> <<100>>, result |-> TRUE, error |-> <<>>]

ErrorMessage(id, message) ==
  [taskId |-> id, success |-> FALSE, progress |-> <<>>, result |-> FALSE, error |-> <<message>>]

\* processLargeFigmaFile(data, options) rejects: options or data is missing,
\* or data has no document
processLargeFigmaFileThrows(input) ==
  \/ input.options = <<>>
  \/ input.figmaData = <<>>
  \/ input.figmaData[1].document = <<>>

\* generateCodeInBackground(data, options) rejects: extractMetadata reads
\* figmaData.name, and the function reads options.includeComponents
generateCodeInBackgroundThrows(input) ==
  \/ input.figmaData = <<>>
  \/ input.options = <<>>

\* the inputs on which CSSEnhancer.enhance(data.figmaData, data.cssText,
\* options) throws
EnhanceThrowingInputs ==
  {input \in TaskInputs :
     \/ input.figmaData = <<>>
     \/ enhance(input.figmaData[1], input.cssText,
                IF input.options = <<>> THEN DefaultOptions ELSE input.options[1]).status = "thrown"}

enhanceThrows(input) == input \in EnhanceThrowingInputs

\* the listener and the handler it calls, up to the first await: what is
\* posted, and where the handler waits
listenerPosts(id, type) ==
  CASE type = "PROCESS_FIGMA_DATA" -> ProgressMessage(id, 10)
    [] type = "ENHANCE_WITH_CSS" -> ProgressMessage(id, 20)
    [] type = "GENERATE_CODE" -> ProgressMessage(id, 30)
    [] OTHER -> ErrorMessage(id, "Unknown task type")

listenerAwaits(type) ==
  CASE type = "PROCESS_FIGMA_DATA" -> "awaitProcess"
    [] type = "ENHANCE_WITH_CSS" -> "awaitImport"
    [] type = "GENERATE_CODE" -> "awaitGenerate"
    [] OTHER -> "done"

\* a handler whose call of enhance is outside the try block: the failure
\* message is never posted
enhancementPostsUncaught(id, input, imported) ==
  IF ~imported THEN <<ErrorMessage(id, "import failed")>>
  ELSE IF enhanceThrows(input) THEN <<ProgressMessage(id, 50)>>
  ELSE <<ProgressMessage(id, 50), ResultMessage(id)>>

\* handleCSSEnhancement behind await import(...)
enhancementPosts(id, input, imported) ==
  IF ~imported THEN <<ErrorMessage(id, "import failed")>>
  ELSE IF enhanceThrows(input)
    THEN <<ProgressMessage(id, 50), ErrorMessage(id, "CSS enhancement failed")>>
    ELSE <<ProgressMessage(id, 50), ResultMessage(id)>>

(***************************************************************************)
(* The calls                                                               *)
(***************************************************************************)
NoOutcome == [status |-> "none", error |-> "", result |-> NoResult]

Init ==
  /\ pc = "idle"
  /\ figmaData = NoDocument
  /\ cssText = <<>>
  /\ options = DefaultOptions
  /\ cssParseResult = EmptyParseResult
  /\ outcome = NoOutcome
  /\ cache = <<>>
  /\ now = 0
  /\ cacheOp = NoCacheOp
  /\ request = IdleRequest
  /\ requestQueue = <<>>
  /\ promises = <<>>
  /\ callers = [c \in Callers |-> IdleCaller]
  /\ tasks = [id \in TaskIds |-> NoTask]
  /\ posted = <<>>

\* a caller runs CSSParser.parse(text)
Parse(text) ==
  /\ pc = "idle"
  /\ pc' = "parsed"
  /\ cssText' = text
  /\ cssParseResult' = parse(text)
  /\ UNCHANGED <<figmaData, options, outcome, serviceVars, workerVars>>

\* a caller runs CSSEnhancer.enhance(data, text, opts)
Enhance(data, text, opts) ==
  /\ pc = "idle"
  /\ pc' = "enhanced"
  /\ figmaData' = data
  /\ cssText' = text
  /\ options' = opts
  /\ \E parsed \in {parse(text)} :
        /\ cssParseResult' = parsed
        /\ outcome' = enhanceParsed(data, parsed, opts)
  /\ UNCHANGED <<serviceVars, workerVars>>

\* the caller has consumed the result; nothing of the call is kept
Return ==
  /\ pc # "idle"
  /\ pc' = "idle"
  /\ figmaData' = NoDocument
  /\ cssText' = <<>>
  /\ options' = DefaultOptions
  /\ cssParseResult' = EmptyParseResult
  /\ outcome' = NoOutcome
  /\ UNCHANGED <<serviceVars, workerVars>>

Next ==
  \/ \E text \in CssTexts \cup EnumeratedTexts : Parse(text)
  \/ \E call \in EnhanceCalls : Enhance(call[1], call[2], call[3])
  \/ Return

Spec == Init /\ [][Next]_vars

(***************************************************************************)
(* detectConflicts applied to mappings of the caller's choice              *)
(***************************************************************************)
\* a mappings argument: every node of the tree mapped to every parsed rule
DirectMappings(document, cssRules) ==
  IF cssRules = <<>> THEN <<>>
  ELSE With(getAllNodes(document, NoNodes), LAMBDA allNodes :
         [i \in DOMAIN allNodes |->
            [nodeId        |-> allNodes[i].id,
             nodeName      |-> allNodes[i].name,
             nodeType      |-> allNodes[i].type,
             cssRules      |-> cssRules,
             confidence    |-> One,
             mappingMethod |-> "manual"]])

\* a caller runs detectConflicts(mappings, document, opts) on the rules of
\* CSSParser.parse(text); the result carries the mappings and the conflicts
DetectConflicts(data, text, opts) ==
  /\ pc = "idle"
  /\ pc' = "conflicts"
  /\ figmaData' = data
  /\ cssText' = text
  /\ options' = opts
  /\ \E parsed \in {parse(text)} :
        /\ cssParseResult' = parsed
        /\ \E mappings \in {DirectMappings(data.document[1], parsed.rules)} :
              outcome' = Returned([NoResult EXCEPT
                           !.mappingResults = mappings,
                           !.conflicts = detectConflicts(mappings, data.document[1], opts)])
  /\ UNCHANGED <<serviceVars, workerVars>>

\* the arguments of the direct calls of detectConflicts
ConflictCalls ==
  {<<Response(tree), text, opts>> :
     tree \in SingleTrees \cup DeepTrees,
     text \in CssTexts \ {Undefined},
     opts \in {DefaultOptions,
               [DefaultOptions EXCEPT !.ignoreColors = TRUE],
               [DefaultOptions EXCEPT !.ignoreTypography = TRUE]}}

ConflictNext ==
  \/ Next
  \/ \E call \in ConflictCalls : DetectConflicts(call[1], call[2], call[3])

ConflictSpec == Init /\ [][ConflictNext]_vars

(***************************************************************************)
(* The operations of CacheService                                          *)
(***************************************************************************)
\* the variables of the engine and of the worker, which the service
\* operations leave alone
engineVars == <<pc, figmaData, cssText, options, cssParseResult, outcome, workerVars>>

\* await cacheService.set(key, data) for data of the given size
CacheServiceSet(key, size) ==
  /\ cache' = setEntry(cache, key, size, now)
  /\ cacheOp' = [op |-> "set", key |-> key, result |-> "stored"]
  /\ UNCHANGED <<now, engineVars, request, fetchVars>>

\* await cacheService.get(key)
CacheServiceGet(key) ==
  /\ cache' = getEntry(cache, key, now)
  /\ cacheOp' = [op |-> "get", key |-> key, result |-> getResult(cache, key, now)]
  /\ UNCHANGED <<now, engineVars, request, fetchVars>>

\* await cacheService.delete(key)
CacheServiceDelete(key) ==
  /\ cache' = cacheDelete(cache, key)
  /\ cacheOp' = [op |-> "delete", key |-> key,
                 result |-> IF cacheHas(cache, key) THEN "true" ELSE "false"]
  /\ UNCHANGED <<now, engineVars, request, fetchVars>>

\* the hourly callback of setupCleanup
CacheCleanup ==
  /\ cache' = dropExpired(cache, now)
  /\ cacheOp' = [op |-> "cleanup", key |-> "", result |-> ""]
  /\ UNCHANGED <<now, engineVars, request, fetchVars>>

\* time passes
CacheTick ==
  /\ now < MaxClock
  /\ now' = now + 1
  /\ cacheOp' = [op |-> "tick", key |-> "", result |-> ""]
  /\ UNCHANGED <<cache, engineVars, request, fetchVars>>

CacheNext ==
  \/ \E key \in CacheKeys : \E size \in EntrySizes : CacheServiceSet(key, size)
  \/ \E key \in CacheKeys : CacheServiceGet(key)
  \/ \E key \in CacheKeys : CacheServiceDelete(key)
  \/ CacheCleanup
  \/ CacheTick

CacheSpec == Init /\ [][CacheNext]_vars

(***************************************************************************)
(* The steps of executeRequest                                             *)
(***************************************************************************)
\* the call, up to the first await fetch
ExecuteRequest(maxRetriesOpt, retryDelayOpt) ==
  /\ request.pc = "idle"
  /\ request' = loopOrFallThrough(
                   [IdleRequest EXCEPT
                      !.options = [maxRetries |-> maxRetriesOpt, retryDelay |-> retryDelayOpt],
                      !.maxRetries = OrDefault(maxRetriesOpt, DefaultMaxRetries),
                      !.retryDelay = OrDefault(retryDelayOpt, DefaultRetryDelay),
                      !.attempt = 1])
  /\ UNCHANGED <<engineVars, cacheVars, fetchVars>>

\* fetch settles with the given result: the loop body up to its next await
FetchSettles(result) ==
  /\ request.pc = "fetch"
  /\ request' =
       With(attemptOutcome(result, request.attempt, request.maxRetries),
            LAMBDA what :
              With([request EXCEPT !.fetches = Append(@, result)],
                   LAMBDA req :
                     CASE what = "return" ->
                            [req EXCEPT !.pc = "done", !.settled = "resolved"]
                       [] what = "delay" ->
                            [req EXCEPT !.pc = "delay",
                                        !.delays = Append(@, backoffDelay(req.retryDelay, req.attempt))]
                       [] OTHER ->
                            [req EXCEPT !.pc = "done", !.settled = what]))
  /\ UNCHANGED <<engineVars, cacheVars, fetchVars>>

\* the timer of delay fires: attempt++ and the loop test
DelayElapses ==
  /\ request.pc = "delay"
  /\ request' = loopOrFallThrough([request EXCEPT !.attempt = @ + 1])
  /\ UNCHANGED <<engineVars, cacheVars, fetchVars>>

MaxRetriesOptions == {<<>>} \cup {<<n>> : n \in (-1)..MaxRetriesOption}

RetryDelayOptions == {<<>>, <<0>>, <<250>>, <<1000>>}

RequestNext ==
  \/ \E maxRetriesOpt \in MaxRetriesOptions : \E retryDelayOpt \in RetryDelayOptions :
        ExecuteRequest(maxRetriesOpt, retryDelayOpt)
  \/ \E result \in FetchResults : FetchSettles(result)
  \/ DelayElapses

RequestSpec == Init /\ [][RequestNext]_vars

\* every fetch settles (AbortSignal.timeout bounds it) and every timer fires
RequestFairSpec ==
  /\ RequestSpec
  /\ WF_vars(\E result \in FetchResults : FetchSettles(result))
  /\ WF_vars(DelayElapses)

(***************************************************************************)
(* The steps of fetchFigmaFile                                             *)
(***************************************************************************)
\* the call, up to its first await or return: the look into requestQueue,
\* then cacheService.get when caching is on, else executeRequest and
\* requestQueue.set
FetchFigmaFile(c, enableCaching) ==
  /\ callers[c].pc = "idle"
  /\ IF queueHas(requestQueue)
       THEN /\ callers' = [callers EXCEPT ![c] =
                             [@ EXCEPT !.pc = "awaitQueued", !.enableCaching = enableCaching,
                                       !.promise = requestQueue[1]]]
            /\ UNCHANGED <<requestQueue, promises, cache>>
       ELSE IF enableCaching
         THEN /\ callers' = [callers EXCEPT ![c] =
                               [@ EXCEPT !.pc = "awaitCache", !.enableCaching = enableCaching,
                                         !.result = getResult(cache, FigmaKey, now)]]
              /\ cache' = getEntry(cache, FigmaKey, now)
              /\ UNCHANGED <<requestQueue, promises>>
         ELSE /\ callers' = [callers EXCEPT ![c] =
                               startRequest([@ EXCEPT !.enableCaching = enableCaching], promises)]
              /\ promises' = Append(promises, "pending")
              /\ requestQueue' = <<Len(promises) + 1>>
              /\ UNCHANGED cache
  /\ UNCHANGED <<engineVars, now, cacheOp, request>>

\* the caller resumes behind await cacheService.getCachedFigmaData: it
\* returns what the cache held, else executeRequest and requestQueue.set
CacheAnswers(c) ==
  /\ callers[c].pc = "awaitCache"
  /\ IF callers[c].result = "hit"
       THEN /\ callers' = [callers EXCEPT ![c] = [@ EXCEPT !.pc = "done", !.result = "cached"]]
            /\ UNCHANGED <<requestQueue, promises>>
       ELSE /\ callers' = [callers EXCEPT ![c] = startRequest([@ EXCEPT !.result = "pending"], promises)]
            /\ promises' = Append(promises, "pending")
            /\ requestQueue' = <<Len(promises) + 1>>
  /\ UNCHANGED <<engineVars, cacheVars, request>>

\* executeRequest settles promise p
RequestSettles(p, how) ==
  /\ p \in DOMAIN promises
  /\ promises[p] = "pending"
  /\ promises' = [promises EXCEPT ![p] = how]
  /\ UNCHANGED <<engineVars, cacheVars, request, requestQueue, callers>>

\* the caller resumes behind await requestPromise: cacheFigmaData when
\* caching is on (its set runs up to the first await), else the finally block
RequestAnswers(c) ==
  /\ callers[c].pc = "awaitRequest"
  /\ promises[callers[c].promise] # "pending"
  /\ IF promises[callers[c].promise] = "resolved" /\ callers[c].enableCaching
       THEN /\ callers' = [callers EXCEPT ![c] = [@ EXCEPT !.pc = "awaitStore"]]
            /\ cache' = setEntry(cache, FigmaKey, FigmaDataSize, now)
            /\ UNCHANGED requestQueue
       ELSE /\ callers' = [callers EXCEPT ![c] =
                             [@ EXCEPT !.pc = "done", !.result = promises[callers[c].promise]]]
            /\ requestQueue' = <<>>
            /\ UNCHANGED cache
  /\ UNCHANGED <<engineVars, now, cacheOp, request, promises>>

\* the caller resumes behind await cacheService.cacheFigmaData: the finally
\* block deletes the entry of the key
StoreAnswers(c) ==
  /\ callers[c].pc = "awaitStore"
  /\ callers' = [callers EXCEPT ![c] = [@ EXCEPT !.pc = "done", !.result = "resolved"]]
  /\ requestQueue' = <<>>
  /\ UNCHANGED <<engineVars, cacheVars, request, promises>>

\* a caller that was handed the queued promise sees it settle
QueuedAnswers(c) ==
  /\ callers[c].pc = "awaitQueued"
  /\ promises[callers[c].promise] # "pending"
  /\ callers' = [callers EXCEPT ![c] =
                   [@ EXCEPT !.pc = "done", !.result = promises[callers[c].promise]]]
  /\ UNCHANGED <<engineVars, cacheVars, request, requestQueue, promises>>

FetchNext ==
  \/ \E c \in Callers : \E enableCaching \in BOOLEAN : FetchFigmaFile(c, enableCaching)
  \/ \E c \in Callers : CacheAnswers(c)
  \/ \E p \in 1..MaxCallers : \E how \in {"resolved", "rejected"} : RequestSettles(p, how)
  \/ \E c \in Callers : RequestAnswers(c)
  \/ \E c \in Callers : StoreAnswers(c)
  \/ \E c \in Callers : QueuedAnswers(c)

FetchSpec == Init /\ [][FetchNext]_vars

(***************************************************************************)
(* The steps of the worker                                                 *)
(***************************************************************************)
otherVars == <<pc, figmaData, cssText, options, cssParseResult, outcome, serviceVars>>

\* the message listener receives a task and runs its handler up to the
\* first await
WorkerReceives(id, type, input) ==
  /\ tasks[id].pc = "none"
  /\ \A earlier \in TaskIds : earlier < id => tasks[earlier].pc # "none"
  /\ tasks' = [tasks EXCEPT ![id] = [type |-> type, pc |-> listenerAwaits(type), input |-> input]]
  /\ posted' = Append(posted, listenerPosts(id, type))
  /\ UNCHANGED otherVars

\* await processLargeFigmaFile settles
ProcessingSettles(id) ==
  /\ tasks[id].pc = "awaitProcess"
  /\ tasks' = [tasks EXCEPT ![id].pc = "done"]
  /\ posted' = Append(posted,
                      IF processLargeFigmaFileThrows(tasks[id].input)
                        THEN ErrorMessage(id, "Processing failed")
                        ELSE ResultMessage(id))
  /\ UNCHANGED otherVars

\* await import('../services/cssEnhancer') settles, and the rest of
\* handleCSSEnhancement runs
ImportSettles(id, imported) ==
  /\ tasks[id].pc = "awaitImport"
  /\ tasks' = [tasks EXCEPT ![id].pc = "done"]
  /\ posted' = posted \o enhancementPosts(id, tasks[id].input, imported)
  /\ UNCHANGED otherVars

\* await generateCodeInBackground settles
GenerationSettles(id) ==
  /\ tasks[id].pc = "awaitGenerate"
  /\ tasks' = [tasks EXCEPT ![id].pc = "done"]
  /\ posted' = Append(posted,
                      IF generateCodeInBackgroundThrows(tasks[id].input)
                        THEN ErrorMessage(id, "Code generation failed")
                        ELSE ResultMessage(id))
  /\ UNCHANGED otherVars

WorkerSteps(id) ==
  \/ ProcessingSettles(id)
  \/ \E imported \in BOOLEAN : ImportSettles(id, imported)
  \/ GenerationSettles(id)

WorkerNext ==
  \/ \E id \in TaskIds : \E message \in TaskMessages :
        WorkerReceives(id, message[1], message[2])
  \/ \E id \in TaskIds : ProcessingSettles(id)
  \/ \E id \in TaskIds : \E imported \in BOOLEAN : ImportSettles(id, imported)
  \/ \E id \in TaskIds : GenerationSettles(id)

WorkerSpec == Init /\ [][WorkerNext]_vars

\* the timers of the handlers fire and the import settles
WorkerFairSpec == WorkerSpec /\ \A id \in TaskIds : WF_vars(WorkerSteps(id))

(***************************************************************************)
(* Properties                                                              *)
(***************************************************************************)
RgbBlue == <<"r","g","b","(","0",","," ","0",","," ","2","5","5",")">>

RgbRedSpaced == <<"r","g","b","(","2","5","5",","," ","0",","," ","0",")">>

\* the one-node tree of scenario 1
ScenarioOneData == Response(Node("1:1", HeaderPlain, <<>>))

\* the one-node tree of scenario 2
ScenarioTwoData == Response(Node("1:1", HeaderBlue, <<>>))

RECURSIVE SumSeq(_, _)
SumSeq(ns, i) == IF i > Len(ns) THEN 0 ELSE ns[i] + SumSeq(ns, i + 1)

\* the number of nodes of the tree below and including node
RECURSIVE CountNodes(_)
CountNodes(node) ==
  1 + SumSeq([i \in DOMAIN node.children |-> CountNodes(node.children[i])], 1)

\* enhance was called and returned a result
EnhanceReturned == pc = "enhanced" /\ outcome.status = "returned"

\* C1 as claimed: for a tree with a document node and a stylesheet that
\* parses as valid, enhance returns a result and never throws.
C1_ThrowsOnlyOnInvalidParse ==
  (pc = "enhanced" /\ figmaData.document # <<>> /\ cssParseResult.isValid)
    => outcome.status = "returned"

\* C3: every mapping of a returned result has confidence >= minConfidence,
\* and a node whose candidates give a confidence below minConfidence has no
\* mapping at all.
C3_ConfidenceFiltering ==
  EnhanceReturned =>
    LET mappings == outcome.result.mappingResults
        allNodes == getAllNodes(figmaData.document[1], NoNodes)
    IN  /\ \A i \in DOMAIN mappings : RLe(options.minConfidence, mappings[i].confidence)
        /\ \A n \in DOMAIN allNodes :
              LET candidates ==
                    findMatchingCSSRules(allNodes[n], cssParseResult.rules, options)
              IN  (/\ candidates # <<>>
                   /\ RLt(calculateMappingConfidence(allNodes[n], candidates, options),
                          options.minConfidence))
                    => \A i \in DOMAIN mappings : mappings[i].nodeId # allNodes[n].id

\* C3 witness: a returned result that keeps one node and discards another
\* node whose candidates score below the threshold.
C3_Witness ==
  /\ EnhanceReturned
  /\ Len(outcome.result.mappingResults) >= 1
  /\ LET allNodes == getAllNodes(figmaData.document[1], NoNodes)
     IN  \E n \in DOMAIN allNodes :
           LET candidates ==
                 findMatchingCSSRules(allNodes[n], cssParseResult.rules, options)
           IN  /\ candidates # <<>>
               /\ RLt(calculateMappingConfidence(allNodes[n], candidates, options),
                      options.minConfidence)

\* C4: for a returned result on a non-empty tree, coverage is the number of
\* mappings over the number of nodes, the statistics carry those two counts,
\* no node has two mappings, and 0 <= coverage <= 1.
C4_CoverageBounds ==
  EnhanceReturned =>
    LET r     == outcome.result
        total == CountNodes(figmaData.document[1])
        ids   == {n.id : n \in Range(getAllNodes(figmaData.document[1], NoNodes))}
    IN  /\ r.coverage = Rat(Len(r.mappingResults), total)
        /\ r.statistics.mappedNodes = Len(r.mappingResults)
        /\ r.statistics.totalNodes = total
        /\ \A i \in DOMAIN r.mappingResults : r.mappingResults[i].nodeId \in ids
        /\ \A i, j \in DOMAIN r.mappingResults :
              i # j => r.mappingResults[i].nodeId # r.mappingResults[j].nodeId
        /\ RLe(Zero, r.coverage) /\ RLe(r.coverage, One)

\* C4 witness: a returned result on a tree with a grandchild that maps some
\* nodes and not others.
C4_Witness ==
  /\ EnhanceReturned
  /\ \E i \in DOMAIN figmaData.document[1].children :
        figmaData.document[1].children[i].children # <<>>
  /\ RLt(Zero, outcome.result.coverage) /\ RLt(outcome.result.coverage, One)

\* C5 as claimed: on a response without a document node enhance does not
\* throw and returns coverage 0 with no mappings.
C5_EmptyTreeCoverageZero ==
  (pc = "enhanced" /\ figmaData.document = <<>> /\ cssParseResult.isValid)
    => /\ outcome.status = "returned"
       /\ outcome.result.coverage = Zero
       /\ outcome.result.mappingResults = <<>>

\* C6 as claimed: scenario 2 (the scenario stylesheet, one node "Header" with
\* a solid blue fill, default options) returns exactly one color conflict,
\* figmaValue "rgb(0, 0, 255)", cssValue "rgb(255, 0, 0)", severity medium.
C6_ScenarioTwoColorConflict ==
  (/\ pc = "enhanced" /\ figmaData = ScenarioTwoData
   /\ cssText = CssScenario /\ options = DefaultOptions)
    => /\ outcome.status = "returned"
       /\ LET colors == SelectSeq(outcome.result.conflicts, LAMBDA c : c.type = "color")
          IN  /\ Len(colors) = 1
              /\ colors[1].figmaValue = RgbBlue
              /\ colors[1].cssValue = RgbRedSpaced
              /\ colors[1].severity = "medium"

\* C7: scenario 1 (the scenario stylesheet, one FRAME "Header" without
\* children, default options) returns exactly one mapping, for the root,
\* with method class or name, confidence > 0, and coverage 1.
C7_ScenarioOneMapping ==
  (/\ pc = "enhanced" /\ figmaData = ScenarioOneData
   /\ cssText = CssScenario /\ options = DefaultOptions)
    => /\ outcome.status = "returned"
       /\ Len(outcome.result.mappingResults) = 1
       /\ outcome.result.mappingResults[1].nodeId = figmaData.document[1].id
       /\ outcome.result.mappingResults[1].mappingMethod \in {"class", "name"}
       /\ RLt(Zero, outcome.result.mappingResults[1].confidence)
       /\ outcome.result.coverage = One

\* C7 witness: the call of scenario 1 has been made and has returned.
C7_Witness ==
  /\ EnhanceReturned /\ figmaData = ScenarioOneData
  /\ cssText = CssScenario /\ options = DefaultOptions

\* C8: the empty text parses to no rules with isValid true, and enhance on a
\* non-empty tree with maxSuggestions >= 1 returns coverage 0, no mappings
\* and the 'No CSS mappings found' suggestion.
C8_ScenarioThreeEmptyStylesheet ==
  /\ (pc \in {"parsed", "enhanced"} /\ cssText = CssEmpty)
       => cssParseResult.rules = <<>> /\ cssParseResult.isValid
  /\ (/\ pc = "enhanced" /\ cssText = CssEmpty
      /\ figmaData.document # <<>> /\ options.maxSuggestions >= 1)
       => /\ outcome.status = "returned"
          /\ outcome.result.coverage = Zero
          /\ outcome.result.mappingResults = <<>>
          /\ SuggestNoMappings \in Range(outcome.result.suggestions)

\* C8 witness: enhance has returned for the empty text on a tree of several
\* nodes with maxSuggestions >= 1.
C8_Witness ==
  /\ EnhanceReturned /\ cssText = CssEmpty /\ options.maxSuggestions >= 1
  /\ figmaData.document # <<>> /\ figmaData.document[1].children # <<>>

C10_BestEffortParsing ==
  pc \in {"parsed", "enhanced"} =>
    /\ IsString(cssText) => (cssParseResult.isValid /\ cssParseResult.errors = <<>>)
    /\ ~cssParseResult.isValid => (~IsString(cssText) /\ cssParseResult.errors # <<>>)

\* C10 witness: a text with an opening brace and an empty block has been
\* parsed: no rule, one warning, still valid.
C10_Witness ==
  /\ pc = "parsed" /\ IsString(cssText)
  /\ \E i \in DOMAIN cssText : cssText[i] = "{"
  /\ cssParseResult.rules = <<>> /\ cssParseResult.warnings # <<>>
  /\ cssParseResult.isValid

\* the conflicts of the given type in the result of the call
ConflictsOfType(type) == SelectSeq(outcome.result.conflicts, LAMBDA c : c.type = type)

\* the nodes of the tree the call was made on
CallNodes == Range(getAllNodes(figmaData.document[1], NoNodes))

\* the node has no fill: fills absent, empty or without a SOLID entry
NoSolidFill(node) ==
  node.fills = <<>> \/ \A i \in DOMAIN node.fills[1] : node.fills[1][i].type # "SOLID"

\* detectConflicts or enhance has returned conflicts for a tree
ConflictsReturned ==
  pc \in {"conflicts", "enhanced"} /\ outcome.status = "returned"

\* the conflicts detectConflicts emits for the node of one mapping of the result
ConflictsOfMapping(mapping) ==
  mappingConflicts(mapping, getAllNodes(figmaData.document[1], NoNodes), options)

NodeOfMapping(mapping) == CHOOSE n \in CallNodes : n.id = mapping.nodeId

\* the match score of parsed rule k for the node under the options of the call
ParsedRuleScore(node, k) ==
  calculateRuleMatchScore(node, cssParseResult.rules[k], options)

\* the indices of the parsed rules that score above 0 for the node
PositiveRules(node) ==
  {k \in DOMAIN cssParseResult.rules : RLt(Zero, ParsedRuleScore(node, k))}

\* the place of parsed rule k among the positive rules: one more than the
\* number of positive rules that score higher, or equal and were parsed earlier
RankOfRule(node, k) ==
  1 + Cardinality({j \in PositiveRules(node) :
                     \/ RLt(ParsedRuleScore(node, k), ParsedRuleScore(node, j))
                     \/ ParsedRuleScore(node, j) = ParsedRuleScore(node, k) /\ j < k})

\* C12: for every mapping of a returned result, cssRules is non-empty, holds
\* exactly the parsed rules whose match score for the node under the active
\* strategy is above 0, and is ordered by descending match score, rules of
\* equal score staying in parse order.
C12_CandidateRanking ==
  EnhanceReturned =>
    \A m \in Range(outcome.result.mappingResults) :
       /\ m.cssRules # <<>>
       /\ Len(m.cssRules) = Cardinality(PositiveRules(NodeOfMapping(m)))
       /\ \A k \in PositiveRules(NodeOfMapping(m)) :
             m.cssRules[RankOfRule(NodeOfMapping(m), k)] = cssParseResult.rules[k]

\* C12 witness: a mapping whose first candidate was parsed after its second
\* one (the sort moved it), while another parsed rule scored 0 and was left out.
C12_Witness ==
  /\ EnhanceReturned
  /\ \E m \in Range(outcome.result.mappingResults) :
        /\ Len(m.cssRules) >= 2
        /\ Len(m.cssRules) < Len(cssParseResult.rules)
        /\ \E j, k \in PositiveRules(NodeOfMapping(m)) :
              /\ j < k
              /\ RankOfRule(NodeOfMapping(m), k) < RankOfRule(NodeOfMapping(m), j)

\* a mapping with two candidates of equal score, kept in parse order
C12_TieReached ==
  /\ EnhanceReturned
  /\ \E m \in Range(outcome.result.mappingResults) :
        \E j, k \in PositiveRules(NodeOfMapping(m)) :
           j < k /\ ParsedRuleScore(NodeOfMapping(m), j) = ParsedRuleScore(NodeOfMapping(m), k)

\* C13: every mapping of every returned result has 0 <= confidence <= 1.
C13_ConfidenceRange ==
  EnhanceReturned =>
    \A m \in Range(outcome.result.mappingResults) :
       RLe(Zero, m.confidence) /\ RLe(m.confidence, One)

\* C13 witness: a mapping whose boosted average exceeds 1 and whose
\* confidence is exactly 1.
C13_Witness ==
  /\ EnhanceReturned
  /\ \E m \in Range(outcome.result.mappingResults) :
        /\ RLt(One, confidenceBeforeClip(NodeOfMapping(m), m.cssRules, options))
        /\ m.confidence = One

\* what one character of a selector adds to the specificity
CharWeight(c) ==
  IF c = "#" THEN 100
  ELSE IF c \in {".", ":", "["} THEN 10
  ELSE IF c \in Letters THEN 1
  ELSE 0

\* the selector #id.class
SelectorIdClass == <<"#", "i", "d", ".", "c", "l", "a", "s", "s">>

\* the selector a[b]:hover
SelectorAttrHover == <<"a", "[", "b", "]", ":", "h", "o", "v", "e", "r">>

\* C14: the specificity of every parsed rule is 100 for each '#' of its
\* selector, 10 for each '.', ':' and '[', and 1 for each ASCII letter, the
\* letters of class and id names included; #id.class gives 117.
C14_SpecificityFormula ==
  \A rule \in Range(cssParseResult.rules) :
     /\ rule.specificity =
          SumSeq([i \in DOMAIN rule.selector |-> CharWeight(rule.selector[i])], 1)
     /\ rule.selector = SelectorIdClass => rule.specificity = 117

\* C14 witness: a stylesheet was parsed into a rule #id.class of specificity
\* 117 and a rule a[b]:hover of specificity 27.
C14_Witness ==
  /\ pc = "parsed"
  /\ \E rule \in Range(cssParseResult.rules) :
        rule.selector = SelectorIdClass /\ rule.specificity = 117
  /\ \E rule \in Range(cssParseResult.rules) :
        rule.selector = SelectorAttrHover /\ rule.specificity = 27

\* C15: for maxSuggestions >= 0, the suggestions of a returned result are at
\* most maxSuggestions many; with maxSuggestions = 0 there is none, even when
\* there are zero mappings.
C15_SuggestionBound ==
  (EnhanceReturned /\ options.maxSuggestions >= 0) =>
    Len(outcome.result.suggestions) <= options.maxSuggestions

\* C15 witness: enhance has returned zero mappings under maxSuggestions = 0,
\* and the "no mappings" suggestion was trimmed away.
C15_Witness ==
  /\ EnhanceReturned
  /\ options.maxSuggestions = 0
  /\ outcome.result.mappingResults = <<>>
  /\ generateSuggestions(outcome.result.mappingResults, outcome.result.conflicts,
                         [options EXCEPT !.maxSuggestions = 1]) = <<SuggestNoMappings>>
  /\ outcome.result.suggestions = <<>>

\* the mean match score of the candidates of a mapping
MeanScore(m) ==
  RDivInt(SumScores(NodeOfMapping(m), m.cssRules, options, 1), Len(m.cssRules))

\* some candidate selector contains the node name, case-insensitively
NameContained(m) ==
  \E rule \in Range(m.cssRules) :
     includes(toLowerCase(rule.selector), toLowerCase(m.nodeName))

\* some candidate selector is a bare generic tag name
HasGenericCandidate(m) ==
  \E rule \in Range(m.cssRules) : rule.selector \in GenericSelectors

\* the mean, times 1.2 when the name is contained
BoostedMean(m) ==
  IF NameContained(m) THEN RMul(MeanScore(m), <<12, 10>>) ELSE MeanScore(m)

\* the confidence by the stated computation: mean, x 1.2, x 0.8, clipped to 1
StatedConfidence(m) ==
  RMin(IF HasGenericCandidate(m) THEN RMul(BoostedMean(m), <<8, 10>>) ELSE BoostedMean(m),
       One)

\* the only candidate of the mapping is a generic selector
OnlyGenericCandidate(m) ==
  Len(m.cssRules) = 1 /\ m.cssRules[1].selector \in GenericSelectors

\* C17 as claimed: the confidence of a mapping is the mean match score of its
\* candidates, times 1.2 if a candidate selector contains the node name,
\* times 0.8 if a candidate selector is a generic tag name, clipped to 1; and
\* a mapping whose only candidate is generic has a confidence of at most 0.8
\* times the (clipped) confidence of a non-generic candidate of the same score.
C17_GenericDiscountOfClipped ==
  EnhanceReturned =>
    \A m \in Range(outcome.result.mappingResults) :
       /\ m.confidence = StatedConfidence(m)
       /\ OnlyGenericCandidate(m) =>
             RLe(m.confidence, RMul(<<8, 10>>, RMin(BoostedMean(m), One)))

\* C17 amended: the same computation; a mapping whose only candidate is
\* generic has a confidence of at most 0.8 times the unclipped boosted mean
\* of a non-generic candidate of the same score, and exactly 0.8 times its
\* confidence when that boosted mean is at most 1.
C17_GenericDiscountOfUnclipped ==
  EnhanceReturned =>
    \A m \in Range(outcome.result.mappingResults) :
       /\ m.confidence = StatedConfidence(m)
       /\ OnlyGenericCandidate(m) =>
             /\ RLe(m.confidence, RMul(<<8, 10>>, BoostedMean(m)))
             /\ RLe(BoostedMean(m), One) =>
                   m.confidence = RMul(<<8, 10>>, RMin(BoostedMean(m), One))

\* C17 witness: a mapping whose only candidate is generic and contains the
\* node name, with a boosted mean above 1: the confidence is 0.96.
C17_Witness ==
  /\ EnhanceReturned
  /\ \E m \in Range(outcome.result.mappingResults) :
        /\ OnlyGenericCandidate(m)
        /\ NameContained(m)
        /\ RLt(One, BoostedMean(m))
        /\ m.confidence = Rat(96, 100)

\* the name score as stated: both strings split on '-', '_' and whitespace,
\* name tokens related by substring to a selector token over the larger count
StatedNameScore(nodeName, selector) ==
  Rat(Cardinality({i \in DOMAIN splitName(nodeName) :
        \E j \in DOMAIN splitName(selector) :
           \/ includes(splitName(selector)[j], splitName(nodeName)[i])
           \/ includes(splitName(nodeName)[i], splitName(selector)[j])}),
      IF Len(splitName(nodeName)) > Len(splitName(selector))
        THEN Len(splitName(nodeName)) ELSE Len(splitName(selector)))

\* C18 as claimed: under the name strategy and without a style bonus, the
\* match score of a rule for a node is the name score over tokens split on
\* '-', '_' and whitespace only; it lies in [0,1]; and a rule whose stated
\* name score is 0 (name button or span against selector .header) is not a
\* candidate of the node.
C18_NameScore ==
  (EnhanceReturned /\ options.mappingStrategy = "name") =>
    \A n \in CallNodes : \A k \in DOMAIN cssParseResult.rules :
       n.fills = <<>> =>
         /\ ParsedRuleScore(n, k) =
              StatedNameScore(toLowerCase(n.name),
                              toLowerCase(cssParseResult.rules[k].selector))
         /\ RLe(Zero, ParsedRuleScore(n, k)) /\ RLe(ParsedRuleScore(n, k), One)
         /\ StatedNameScore(toLowerCase(n.name),
                            toLowerCase(cssParseResult.rules[k].selector)) = Zero
              => \A m \in Range(outcome.result.mappingResults) :
                    m.nodeId = n.id =>
                      cssParseResult.rules[k] \notin Range(m.cssRules)

\* the score of the strategy alone for the node and parsed rule k
StrategyScoreOf(node, k) ==
  strategyScore(toLowerCase(node.name), toLowerCase(cssParseResult.rules[k].selector),
                options.mappingStrategy)

\* parsed rule k declares a font-size within 2px of the node's text style
FontSizeWithin(node, k) ==
  /\ node.style # <<>>
  /\ \E prop \in Range(cssParseResult.rules[k].properties) :
        isTypographySimilar(node.style[1], prop)

\* parsed rule k declares a width within 5px of the node's bounding box
WidthWithin(node, k) ==
  /\ node.absoluteBoundingBox # <<>>
  /\ \E prop \in Range(cssParseResult.rules[k].properties) :
        isSpacingSimilar(node.absoluteBoundingBox[1], prop)

\* C19 as claimed: for a node with a text style, a rule declaring a font-size
\* within 2px of it and ignoreTypography = false, the match score exceeds the
\* strategy score by a typography bonus whether or not the node has fills;
\* likewise for a bounding box, a width within 5px and ignoreSpacing = false.
C19_BonusRegardlessOfFills ==
  EnhanceReturned =>
    \A n \in CallNodes : \A k \in DOMAIN cssParseResult.rules :
       /\ (FontSizeWithin(n, k) /\ ~options.ignoreTypography)
            => RLt(StrategyScoreOf(n, k), ParsedRuleScore(n, k))
       /\ (WidthWithin(n, k) /\ ~options.ignoreSpacing)
            => RLt(StrategyScoreOf(n, k), ParsedRuleScore(n, k))

\* the bonus is there for the nodes that have a fills attribute
C19_BonusWithFills ==
  EnhanceReturned =>
    \A n \in CallNodes : \A k \in DOMAIN cssParseResult.rules :
       (n.fills # <<>> /\ FontSizeWithin(n, k) /\ ~options.ignoreTypography)
         => RLt(StrategyScoreOf(n, k), ParsedRuleScore(n, k))

\* a node with fills and a text style met a rule with a font-size within 2px
C19_BonusWithFillsReached ==
  /\ EnhanceReturned /\ ~options.ignoreTypography
  /\ \E n \in CallNodes : \E k \in DOMAIN cssParseResult.rules :
        n.fills # <<>> /\ FontSizeWithin(n, k)

\* a colour literal in one form: lower case, without whitespace
NormalizedColor(color) == SelectSeq(toLowerCase(color), LAMBDA c : ~IsSpace(c))

C20_RealDifferenceReached ==
  /\ pc = "conflicts"
  /\ \E c \in Range(ConflictsOfType("color")) :
        c.figmaValue = RgbBlue /\ NormalizedColor(c.cssValue) = NormalizedColor(RgbRedSpaced)

\* C21 as claimed: whenever enhance returns at least one mapping, a coverage
\* (mappings over all nodes) below 0.3 and maxSuggestions >= 1, the
\* suggestions hold the "Low CSS coverage" suggestion; with zero mappings
\* they hold the "No CSS mappings found" suggestion instead.
C21_LowCoverageSuggestion ==
  (EnhanceReturned /\ options.maxSuggestions >= 1) =>
    /\ (/\ Len(outcome.result.mappingResults) >= 1
        /\ RLt(Rat(Len(outcome.result.mappingResults),
                   CountNodes(figmaData.document[1])), <<3, 10>>))
         => SuggestLowCoverage \in Range(outcome.result.suggestions)
    /\ Len(outcome.result.mappingResults) = 0
         => /\ SuggestNoMappings \in Range(outcome.result.suggestions)
            /\ SuggestLowCoverage \notin Range(outcome.result.suggestions)

\* the half of C21 about zero mappings
C21_NoMappingsSuggestion ==
  (EnhanceReturned /\ options.maxSuggestions >= 1
   /\ Len(outcome.result.mappingResults) = 0)
    => /\ SuggestNoMappings \in Range(outcome.result.suggestions)
       /\ SuggestLowCoverage \notin Range(outcome.result.suggestions)

\* the declarations of all parsed rules
ParsedProperties ==
  UNION {Range(rule.properties) : rule \in Range(cssParseResult.rules)}

\* C22 as claimed: each declaration yields one property, in source order,
\* with trimmed property and value texts; important is true exactly when the
\* declaration carries !important, and the value never holds the marker.
\* For `.button-primary { padding: 4px !important; }` that is one property
\* padding with value 4px and important true.
C22_DeclarationParsing ==
  /\ \A prop \in ParsedProperties :
        /\ prop.property = trim(prop.property)
        /\ prop.value = trim(prop.value)
        /\ ~includes(prop.value, ImportantLiteral)
  /\ (pc \in {"parsed", "enhanced"} /\ cssText = CssComment) =>
        /\ Len(cssParseResult.rules) = 1
        /\ Len(cssParseResult.rules[1].properties) = 1
        /\ cssParseResult.rules[1].properties[1].property = StrPadding
        /\ cssParseResult.rules[1].properties[1].value = <<"4", "p", "x">>
        /\ cssParseResult.rules[1].properties[1].important

\* what does hold: property and value are trimmed, and the declarations of
\* the scenario stylesheet come out in source order, color before font-size
C22_TrimmedInOrder ==
  /\ \A prop \in ParsedProperties :
        prop.property = trim(prop.property) /\ prop.value = trim(prop.value)
  /\ (pc \in {"parsed", "enhanced"} /\ cssText = CssScenario) =>
        /\ Len(cssParseResult.rules) = 1
        /\ [i \in DOMAIN cssParseResult.rules[1].properties |->
              cssParseResult.rules[1].properties[i].property] = <<StrColor, StrFontSize>>

\* the method the selector of the top-ranked candidate of a mapping stands for
MethodOfTopSelector(m) ==
  IF "#" \in Range(m.cssRules[1].selector) THEN "id"
  ELSE IF "." \in Range(m.cssRules[1].selector) THEN "class"
  ELSE IF includes(toLowerCase(m.cssRules[1].selector), toLowerCase(m.nodeName)) THEN "name"
  ELSE IF options.enableAutoMapping THEN "auto"
  ELSE "manual"

\* C23: the mappingMethod of every mapping follows from the selector of its
\* top-ranked candidate alone: id if it contains '#', else class if it
\* contains '.', else name if it contains the node name case-insensitively,
\* else auto when enableAutoMapping is true and manual otherwise.
C23_MappingMethod ==
  EnhanceReturned =>
    \A m \in Range(outcome.result.mappingResults) :
       m.mappingMethod = MethodOfTopSelector(m)

\* C23 witness: a mapping whose top-ranked selector holds both '#' and '.'
\* and whose method is id.
C23_Witness ==
  /\ EnhanceReturned
  /\ \E m \in Range(outcome.result.mappingResults) :
        /\ "#" \in Range(m.cssRules[1].selector)
        /\ "." \in Range(m.cssRules[1].selector)
        /\ m.mappingMethod = "id"

\* each of the five methods occurs in some result
MethodReached(method) ==
  /\ EnhanceReturned
  /\ \E m \in Range(outcome.result.mappingResults) : m.mappingMethod = method

C23_IdReached == MethodReached("id")

C23_ClassReached == MethodReached("class")

C23_NameReached == MethodReached("name")

C23_AutoReached == MethodReached("auto")

C23_ManualReached == MethodReached("manual")

\* a lower-ranked candidate with '.' does not decide: the method is name
C23_TopAloneReached ==
  /\ EnhanceReturned
  /\ \E m \in Range(outcome.result.mappingResults) :
        /\ m.mappingMethod \in {"name", "auto", "manual"}
        /\ \E i \in DOMAIN m.cssRules : "." \in Range(m.cssRules[i].selector)

\* the conflicts of one type among the conflicts of an outcome, none if it threw
TypedConflictsOf(out, type) ==
  IF out.status = "returned"
    THEN SelectSeq(out.result.conflicts, LAMBDA c : c.type = type) ELSE <<>>

\* the outcome of the same call of enhance with ignoreColors switched
OutcomeWithColorsSwitched ==
  enhanceParsed(figmaData, cssParseResult, [options EXCEPT !.ignoreColors = ~@])

\* the conflicts detectConflicts gives for the mappings of the result with
\* the given options
ConflictsUnder(opts) ==
  detectConflicts(outcome.result.mappingResults, figmaData.document[1], opts)

\* the declarations of parsed rule k with one of the given property names
DeclarationsNamed(k, names) ==
  {i \in DOMAIN cssParseResult.rules[k].properties :
     cssParseResult.rules[k].properties[i].property \in names}

\* the typography checks of the node against parsed rule k: how many are
\* made and how many find the font-size within 2px
TypographyChecks(n, k) ==
  IF n.style = <<>> THEN {}
  ELSE DeclarationsNamed(k, {StrFontSize, StrFontWeight, StrFontFamily, StrLineHeight})

TypographyHits(n, k) ==
  {i \in TypographyChecks(n, k) :
     isTypographySimilar(n.style[1], cssParseResult.rules[k].properties[i])}

\* the spacing checks of the node against parsed rule k
SpacingChecks(n, k) ==
  IF n.absoluteBoundingBox = <<>> THEN {}
  ELSE DeclarationsNamed(k, {StrMargin, StrPadding, StrGap, StrWidth, StrHeight})

SpacingHits(n, k) ==
  {i \in SpacingChecks(n, k) :
     isSpacingSimilar(n.absoluteBoundingBox[1], cssParseResult.rules[k].properties[i])}

\* hits of weight tenths over the number of checks, 0 without checks
BonusOf(weight, hits, checks) ==
  IF checks = {} THEN Zero ELSE Rat(weight * Cardinality(hits), 10 * Cardinality(checks))

C24_SpacingIgnoredReached ==
  /\ EnhanceReturned /\ options.ignoreSpacing
  /\ \E n \in CallNodes : \E k \in DOMAIN cssParseResult.rules :
        n.fills # <<>> /\ SpacingHits(n, k) # {} /\ TypographyHits(n, k) # {}

\* under ignoreTypography a rule with both kinds of declaration got a bonus
C24_TypographyIgnoredReached ==
  /\ EnhanceReturned /\ options.ignoreTypography
  /\ \E n \in CallNodes : \E k \in DOMAIN cssParseResult.rules :
        n.fills # <<>> /\ SpacingHits(n, k) # {} /\ TypographyChecks(n, k) # {}

\* a direct call with ignoreColors set left out a color conflict that the
\* same call without the flag reports
C24_ColorsIgnoredReached ==
  /\ pc = "conflicts" /\ options.ignoreColors
  /\ ConflictsUnder([options EXCEPT !.ignoreColors = FALSE]) # outcome.result.conflicts

\* C29: every conflict of every result has type color or typography and
\* severity low or medium, so none is of severity high, and the
\* "high-severity conflicts found" suggestion is in no result of enhance.
C29_ReachableConflictShapes ==
  ConflictsReturned =>
    /\ \A c \in Range(outcome.result.conflicts) :
          c.type \in {"color", "typography"} /\ c.severity \in {"low", "medium"}
    /\ \A sug \in Range(outcome.result.suggestions) :
          sug.text # "high-severity conflicts found"

\* C29 witness: detectConflicts has reported a color conflict between an rgb
\* form and a colour name, of severity low.
C29_Witness ==
  /\ ConflictsReturned
  /\ \E c \in Range(outcome.result.conflicts) :
        /\ c.type = "color" /\ c.severity = "low"
        /\ includes(c.figmaValue, StrRgb) /\ ~includes(c.cssValue, StrRgb)

\* a color conflict between two rgb forms, of severity medium
C29_MediumReached ==
  /\ ConflictsReturned
  /\ \E c \in Range(outcome.result.conflicts) : c.type = "color" /\ c.severity = "medium"

\* enhance itself has returned a result with a conflict and a suggestion
C29_EnhanceConflictReached ==
  /\ EnhanceReturned
  /\ outcome.result.conflicts # <<>>
  /\ outcome.result.suggestions # <<>>

(***************************************************************************)
(* CacheService                                                            *)
(***************************************************************************)
\* the entries of the Map that a step removed, and those it kept, leaving
\* out the key that the step was about
EntriesOf(entries, key) == {entries[i] : i \in {j \in DOMAIN entries : entries[j].key # key}}

KeysOf(entries) == {entries[i].key : i \in DOMAIN entries}

\* a set evicts an entry only when no entry that it keeps was accessed earlier
EvictionInAccessOrder ==
  cacheOp'.op = "set" =>
    \A gone \in EntriesOf(cache, cacheOp'.key) : \A kept \in EntriesOf(cache, cacheOp'.key) :
      (gone.key \notin KeysOf(cache') /\ kept.key \in KeysOf(cache'))
        => gone.lastAccessed <= kept.lastAccessed

\* C25 Size-bounded cache: after any sequence of set, get and delete (with
\* overwrites and entries larger than the limit) the sizes of the entries held
\* sum to at most maxSize, and a set evicts in least-recently-accessed-first
\* order.  The code inserts an entry larger than maxSize after it has evicted
\* every other entry.
C25_SizeBounded ==
  /\ [](getCurrentSize(cache) <= CacheMaxSize)
  /\ [][EvictionInAccessOrder]_vars

\* C25, the part that holds: evictions are in access order, and the sizes sum
\* to at most maxSize whenever no single entry is larger than maxSize
C25_EvictionOrder == [][EvictionInAccessOrder]_vars

C25_BoundedWhenEntriesFit ==
  (\A i \in DOMAIN cache : cache[i].size <= CacheMaxSize)
    => getCurrentSize(cache) <= CacheMaxSize

\* a set has evicted the least recently accessed entry and kept a later one
C25_EvictionReached ==
  /\ cacheOp.op = "set"
  /\ Len(cache) = 2
  /\ \E i \in DOMAIN cache : cache[i].lastAccessed < now /\ cache[i].key # cacheOp.key

\* an entry larger than maxSize is held
C25_OversizeReached == \E i \in DOMAIN cache : cache[i].size > CacheMaxSize

(***************************************************************************)
(* FigmaApiService.executeRequest                                          *)
(***************************************************************************)
\* the attempts that were followed by another attempt or by the delay before it
RetriedAttempts == {i \in DOMAIN request.fetches : i < request.attempt \/ request.pc = "delay"}

ClientErrorAttempts ==
  {i \in DOMAIN request.fetches :
     request.fetches[i].kind = "response" /\ isClientError(request.fetches[i])}

ServerErrorAttempts ==
  {i \in DOMAIN request.fetches :
     /\ request.fetches[i].kind = "response"
     /\ request.fetches[i].status >= 500 \/ request.fetches[i].status = 429}

\* C26 No retry on client errors: an attempt that brings a 4xx status other
\* than 429 is the last attempt and the call rejects with the API error of that
\* status; of the responses that are not ok only 5xx and 429 are retried.  The
\* throw of line 134 is inside the try block, its catch block retries it.
C26_NoRetryOnClientErrors ==
  /\ \A i \in ClientErrorAttempts :
        /\ i \notin RetriedAttempts
        /\ request.pc = "done"
        /\ request.settled = getErrorCode(request.fetches[i].status)
  /\ \A i \in RetriedAttempts :
        (request.fetches[i].kind = "response" /\ ~responseOk(request.fetches[i]))
          => i \in ServerErrorAttempts

\* C26, the part that holds: a 5xx or 429 response before the last attempt is
\* followed by the exponential-backoff delay and then by another attempt
C26_ServerErrorsRetried ==
  \A i \in ServerErrorAttempts :
    i < request.maxRetries =>
      /\ i \in RetriedAttempts
      /\ request.delays[i] = request.retryDelay * Pow2(i - 1)

\* a 404 was answered by a delay and a second fetch
C26_ClientErrorRetriedReached ==
  /\ Len(request.fetches) >= 2
  /\ request.fetches[1].status = 404

\* a call that met nothing but 404 responses rejected with REQUEST_FAILED
C26_ClientErrorsEndAsRequestFailed ==
  /\ request.pc = "done"
  /\ request.settled = "REQUEST_FAILED"
  /\ Len(request.fetches) = 3
  /\ \A i \in DOMAIN request.fetches : request.fetches[i].status = 404

\* maxRetries as the claims state it: 3 when the option is unset or 0
StatedMaxRetries ==
  IF request.options.maxRetries \in {<<>>, <<0>>} THEN 3 ELSE request.options.maxRetries[1]

StatedRetryDelay ==
  IF request.options.retryDelay \in {<<>>, <<0>>} THEN 1000 ELSE request.options.retryDelay[1]

\* the attempts that brought a response that validates
ValidatedAttempts ==
  {i \in DOMAIN request.fetches :
     /\ request.fetches[i].kind = "response"
     /\ responseOk(request.fetches[i])
     /\ request.fetches[i].body = "valid"}

Called == request.pc # "idle"

Settled == request.pc = "done"

\* at most maxRetries attempts, and the call returns at the first response
\* that validates
AttemptsBounded ==
  /\ Len(request.fetches) <= StatedMaxRetries
  /\ \A i \in ValidatedAttempts :
        i = Len(request.fetches) /\ Settled /\ request.settled = "resolved"
  /\ (Settled /\ request.settled = "resolved") => ValidatedAttempts # {}

\* the delay before attempt k + 1 is retryDelay * 2^(k - 1)
DelaysDouble ==
  /\ Len(request.delays) = (IF request.pc = "delay" THEN request.attempt ELSE request.attempt - 1)
  /\ \A k \in DOMAIN request.delays :
        request.delays[k] = StatedRetryDelay * Pow2(k - 1)

EndedOnFetchTypeError ==
  /\ request.fetches # <<>>
  /\ request.fetches[Len(request.fetches)].kind = "typeErrorFetch"

C27_NetworkErrorReached ==
  /\ Settled
  /\ request.settled = "NETWORK_ERROR"
  /\ Len(request.fetches) = 2
  /\ StatedMaxRetries = 3

C27_ResolvedAfterRetryReached ==
  /\ Settled
  /\ request.settled = "resolved"
  /\ Len(request.fetches) = 3

(***************************************************************************)
(* FigmaApiService.fetchFigmaFile                                          *)
(***************************************************************************)
\* the promises of executeRequest that have not settled
InFlight == {p \in DOMAIN promises : promises[p] = "pending"}

\* every call that was made has settled
AllCallsSettled == \A c \in Callers : callers[c].pc \in {"idle", "done"}

\* a call that arrives while a request is in flight is handed its promise
ArrivalsShareThePromise ==
  \A c \in Callers :
    (callers[c].pc = "idle" /\ callers'[c].pc # "idle" /\ InFlight # {})
      => (callers'[c].pc = "awaitQueued" /\ callers'[c].promise \in InFlight)

\* C28 In-flight request de-duplication: for any interleaving of concurrent
\* fetchFigmaFile calls for one key at most one executeRequest is in flight,
\* a call that arrives while it is in flight receives its promise, and once
\* all calls have settled requestQueue holds no entry for the key.  With
\* caching on, the await of the cache lookup separates requestQueue.has from
\* requestQueue.set.
C28_InFlightDeduplication ==
  /\ [](Cardinality(InFlight) <= 1)
  /\ [][ArrivalsShareThePromise]_vars
  /\ [](AllCallsSettled => requestQueue = <<>>)

\* C28, the parts that hold: requestQueue is empty once all calls have
\* settled, and calls with enableCaching: false are de-duplicated
C28_QueueEmptiedWhenSettled == AllCallsSettled => requestQueue = <<>>

C28_DeduplicationWithoutCaching ==
  (\A c \in Callers : callers[c].pc # "idle" => ~callers[c].enableCaching)
    => /\ Cardinality(InFlight) <= 1
       /\ InFlight # {} => requestQueue = <<CHOOSE p \in InFlight : TRUE>>

\* two requests for the key are in flight
C28_TwoInFlightReached == Cardinality(InFlight) = 2

\* a request is in flight and the queue has lost its entry
C28_InFlightUnqueuedReached == InFlight # {} /\ requestQueue = <<>>

\* a caller was handed the promise of a request in flight
C28_SharedPromiseReached ==
  \E c \in Callers : callers[c].pc = "awaitQueued" /\ callers[c].promise \in InFlight

\* a call was answered from the cache
C28_CacheHitReached == \E c \in Callers : callers[c].result = "cached"

(***************************************************************************)
(* The background worker                                                   *)
(***************************************************************************)
MessagesOf(id) == SelectSeq(posted, LAMBDA m : m.taskId = id)

\* success with a result and progress 100, or success = false with an error
IsTerminal(m) ==
  \/ m.success /\ m.result /\ m.progress = <<100>>
  \/ ~m.success /\ m.error # <<>> /\ ~m.result

\* success with nothing but a progress value below 100
IsProgressOnly(m) ==
  /\ m.success /\ ~m.result /\ m.error = <<>>
  /\ m.progress # <<>> /\ m.progress[1] < 100

TerminalPosted(id) == \E i \in DOMAIN MessagesOf(id) : IsTerminal(MessagesOf(id)[i])

\* the messages of a task: progress-only messages with non-decreasing
\* values, then at most one terminal message, which is there when the handler
\* is done
TaskProtocol(id) ==
  With(MessagesOf(id), LAMBDA ms :
    /\ \A i \in DOMAIN ms : IsTerminal(ms[i]) \/ IsProgressOnly(ms[i])
    /\ \A i \in DOMAIN ms : IsTerminal(ms[i]) => i = Len(ms)
    /\ \A i, j \in DOMAIN ms :
          (i < j /\ IsProgressOnly(ms[i]) /\ IsProgressOnly(ms[j]))
            => ms[i].progress[1] <= ms[j].progress[1]
    /\ tasks[id].pc = "done" <=> (ms # <<>> /\ IsTerminal(ms[Len(ms)]))
    /\ tasks[id].pc = "none" <=> ms = <<>>)

\* a task whose call of CSSEnhancer.enhance throws ends with the failure message
EnhanceFailureReported(id) ==
  (/\ tasks[id].type = "ENHANCE_WITH_CSS"
   /\ tasks[id].pc = "done"
   /\ enhanceThrows(tasks[id].input))
    => ~MessagesOf(id)[Len(MessagesOf(id))].success

\* C30 Worker task protocol: for every task message the worker receives, of
\* one of the three types or of an unknown type, exactly one terminal message
\* is eventually posted for its id (success with a result and progress 100, or
\* success = false with an error), it is the last message of the task, the
\* progress-only messages before it carry non-decreasing values below 100, and
\* a failure inside CSSEnhancer.enhance yields the failure message
C30_WorkerTaskProtocol ==
  /\ [](\A id \in TaskIds : TaskProtocol(id) /\ EnhanceFailureReported(id))
  /\ \A id \in TaskIds : (tasks[id].pc # "none") ~> TerminalPosted(id)

\* an enhancement task whose call of enhance throws has posted 20, 50 and
\* the failure message
C30_Witness ==
  \E id \in TaskIds :
    /\ tasks[id].type = "ENHANCE_WITH_CSS"
    /\ tasks[id].input.figmaData # <<>>
    /\ enhanceThrows(tasks[id].input)
    /\ Len(MessagesOf(id)) = 3
    /\ MessagesOf(id)[1].progress = <<20>>
    /\ MessagesOf(id)[2].progress = <<50>>
    /\ ~MessagesOf(id)[3].success

\* a task of the given type has ended with a result
ResultReached(type) ==
  \E id \in TaskIds :
    /\ tasks[id].type = type
    /\ tasks[id].pc = "done"
    /\ MessagesOf(id)[Len(MessagesOf(id))].result

C30_ProcessingResultReached == ResultReached("PROCESS_FIGMA_DATA")

C30_EnhancementResultReached == ResultReached("ENHANCE_WITH_CSS")

C30_GenerationResultReached == ResultReached("GENERATE_CODE")

\* a task of an unknown type was answered with one failure message
C30_UnknownTypeReached ==
  \E id \in TaskIds :
    /\ tasks[id].type \notin {"PROCESS_FIGMA_DATA", "ENHANCE_WITH_CSS", "GENERATE_CODE"}
    /\ tasks[id].pc = "done"
    /\ Len(MessagesOf(id)) = 1

\* the messages of two tasks are interleaved
C30_InterleavedReached ==
  /\ Len(posted) >= 3
  /\ posted[1].taskId = 1 /\ posted[2].taskId = 2 /\ posted[3].taskId = 1

====
